---------------------------- MODULE Spec2Model ----------------------------
(***************************************************************************)
(* A model of the resource lifecycle of woeusb-go: the mount package       *)
(* (Mount, Unmount, CleanupMountpoint, MountISO, MountDevice), the session *)
(* (Session.Cleanup, Session.SetupSignalHandler) and the CLI run of        *)
(* cmd/woeusb/main.go with its two signal listeners; and of its copy       *)
(* package (the size scans, copyFile, the tree copy, the WIM split         *)
(* pipeline).                                                              *)
(*                                                                         *)
(* Strings (paths, device names) are finite sequences of tokens, a token   *)
(* standing for a run of characters, so that "" is the empty sequence and  *)
(* strings.HasPrefix is a prefix test on sequences.                        *)
(*                                                                         *)
(* The operating system is the pair (dirs, mtab): the directories that     *)
(* exist among the paths the program handles, and the mount table that     *)
(* /proc/mounts shows.  A call to the operating system either has its      *)
(* outcome fixed by that state (rmdir of an empty directory on which       *)
(* nothing is mounted succeeds, umount of a path that is no mountpoint     *)
(* fails) or has an outcome the caller cannot predict (a mount may be      *)
(* refused, an unmount may find the filesystem busy, mkdtemp may fail, the *)
(* removal of a temp tree may fail); the latter is an explicit outcome     *)
(* parameter that the actions choose with \E.                              *)
(***************************************************************************)
EXTENDS Naturals, Sequences, FiniteSets, TLC

VARIABLES
    sess,       \* the Session's resource fields: SourceMount, TargetMount, TempDir
    dirs,       \* OS: the directories that exist
    mtab,       \* OS: the mount table (/proc/mounts), a set of MountInfo records
    log,        \* the OS calls of the current call, in order (kept where run.trace)
    pc,         \* the position of each thread of control
    cpos,       \* Cleanup: index of the resource block being executed, per caller
    errs,       \* Cleanup: the local slice errs, per caller
    result,     \* Cleanup: the value returned by the caller's last call (<<>> is nil)
    ncalls,     \* Cleanup: number of calls started, per caller
    sess0,      \* Cleanup: the resource fields as they were when the call started
    last,       \* mount package harness: the last call and what it returned
    touched,    \* per caller, the paths it has tried to unmount or to remove
    run,        \* CLI run: main's locals, the signal, how the process ended
    tree,       \* copy: the source tree, its entries in the order filepath.Walk meets them
    dst,        \* copy: the destination tree, a set of directories, files and split parts
    stats,      \* copy: the CopyStats of the running copy
    events,     \* copy: what the copy did so far (mkdir, copy, progress, split), in order;
                \* CLI steps: the checks and commands of the run so far, in order
    cp,         \* copy: the function called, its position, its locals and its return value
    lastCopy    \* copy: the last call of copyFile and what it did

vars == <<sess, dirs, mtab, log, pc, cpos, errs, result, ncalls, sess0, last, touched, run,
          tree, dst, stats, events, cp, lastCopy>>

copyVars == <<tree, dst, stats, events, cp, lastCopy>>

----------------------------------------------------------------------------
(* Bounds *)

\* Session.Cleanup is called at most MaxCalls times in a row by the harness.
MaxCalls == 2

\* os.MkdirTemp draws the random suffix of a new directory from 1..MaxSuffix.
MaxSuffix == 2

\* The source tree of a copy holds at most MaxFiles entries besides its two
\* directories.
MaxFiles == 2

\* The operating system fails at most MaxFaults calls of one copy.
MaxFaults == 2

\* copyFile is called on files of up to MaxChunks chunks and a bit.
MaxChunks == 7

----------------------------------------------------------------------------
(* Strings *)

EmptyStr == <<>>

\* strings.HasPrefix(s, prefix)
HasPrefix(s, prefix) ==
    /\ Len(prefix) <= Len(s)
    /\ SubSeq(s, 1, Len(prefix)) = prefix

\* strings.ToLower on the filesystem names the callers pass
ToLower(s) ==
    CASE s = "FAT"   -> "fat"
      [] s = "FAT32" -> "fat32"
      [] s = "NTFS"  -> "ntfs"
      [] s = ".WIM"  -> ".wim"
      [] s = ".BIN"  -> ".bin"
      [] OTHER       -> s

\* strings.ToUpper on the values of --target-filesystem
ToUpper(s) ==
    CASE s \in {"FAT", "fat", "Fat"}       -> "FAT"
      [] s \in {"FAT32", "fat32", "Fat32"} -> "FAT32"
      [] s \in {"NTFS", "ntfs", "Ntfs"}    -> "NTFS"
      [] s = "exfat"                       -> "EXFAT"
      [] OTHER                             -> s

\* The paths of the model.
IsoPath    == <<"/home/u/", "win.iso">>
DevicePath == <<"/dev/sd", "b", "1">>
LoopDev    == <<"/dev/loop", "0">>
DvdDevice  == <<"/dev/sr", "0">>
RegularFiles == {IsoPath}
IsoPrefix  == "/tmp/woeusb-iso-"
DevPrefix  == "/tmp/woeusb-dev-"
SrcMp      == <<IsoPrefix, "1">>
DstMp      == <<DevPrefix, "1">>
TmpDir     == <<"/tmp/woeusb-tmp">>

\* The random suffixes os.MkdirTemp may append to a prefix.
Digits     == <<"1", "2", "3", "4", "5", "6">>
Suffixes   == {Digits[n] : n \in 1..MaxSuffix}
TempNames(prefix) == {<<prefix, d>> : d \in Suffixes}

----------------------------------------------------------------------------
(* The operating system.  A world w is [dirs, mtab, log]; every operation  *)
(* returns the world after it and its error (TRUE: a non-nil error).       *)

World == [dirs |-> dirs, mtab |-> mtab, log |-> log]

Entry(op, path, fs, ok, by) == [op |-> op, path |-> path, fs |-> fs, ok |-> ok, by |-> by]

Logged(w, e) == [w EXCEPT !.log = Append(@, e)]

\* Whether a filesystem is mounted on path.
IsMountpoint(tab, path) == \E m \in tab : m.Mountpoint = path

\* syscall.Mount / mount(8): succeeds only on an existing directory and only if
\* the outcome says so; dev is the device the mount table will show.
SysMount(w, dev, mountpoint, fstype, good, by) ==
    LET ok  == good /\ mountpoint \in w.dirs
        w1  == Logged(w, Entry("mount", mountpoint, fstype, ok, by))
    IN  [w   |-> IF ok
                 THEN [w1 EXCEPT !.mtab = @ \cup {[Device |-> dev, Mountpoint |-> mountpoint,
                                                   Filesystem |-> fstype]}]
                 ELSE w1,
         err |-> ~ok]

\* syscall.Unmount / umount(8): fails on a path that is no mountpoint, and on a
\* mountpoint when the filesystem is busy (good = FALSE).
SysUnmount(w, path, good, by) ==
    LET ok == good /\ IsMountpoint(w.mtab, path)
        w1 == Logged(w, Entry("unmount", path, "", ok, by))
    IN  [w   |-> IF ok THEN [w1 EXCEPT !.mtab = {m \in @ : m.Mountpoint # path}] ELSE w1,
         err |-> ~ok]

\* os.Remove of a mountpoint directory: rmdir succeeds on an existing directory
\* with nothing mounted on it.
OsRemove(w, path, by) ==
    LET ok == path \in w.dirs /\ ~IsMountpoint(w.mtab, path)
        w1 == Logged(w, Entry("remove", path, "", ok, by))
    IN  [w   |-> IF ok THEN [w1 EXCEPT !.dirs = @ \ {path}] ELSE w1,
         err |-> ~ok]

\* os.RemoveAll: nil for a path that does not exist; fails on a mountpoint
\* (EBUSY) and when the outcome says the tree cannot be removed.
OsRemoveAll(w, path, good, by) ==
    LET ok == path \notin w.dirs \/ (good /\ ~IsMountpoint(w.mtab, path))
        w1 == Logged(w, Entry("removeall", path, "", ok, by))
    IN  [w   |-> IF ok THEN [w1 EXCEPT !.dirs = @ \ {path}] ELSE w1,
         err |-> ~ok]

----------------------------------------------------------------------------
(* Package mount *)

MountOutcomes   == {"syscall", "shell", "fail"}
UnmountOutcomes == {"syscall", "umount", "lazy", "fail"}

\* Mount: MkdirAll of the mountpoint, the mount syscall, then mount(8).  The
\* syscall refuses a regular file as the source (ENOTBLK); mount(8) attaches it
\* to a loop device, which is what the mount table then shows.
Mount(w, source, mountpoint, fstype, opts, o, by) ==
    LET w0 == [w EXCEPT !.dirs = @ \cup {mountpoint}]
        r1 == SysMount(w0, source, mountpoint, fstype,
                       o = "syscall" /\ source \notin RegularFiles, by)
        r2 == SysMount(r1.w, IF "loop" \in opts THEN LoopDev ELSE source,
                       mountpoint, fstype, o = "shell", by)
    IN  IF ~r1.err THEN [w |-> r1.w, err |-> FALSE]
        ELSE [w |-> r2.w, err |-> r2.err]

\* Unmount: the unmount syscall, then umount, then umount -l.
Unmount(w, mountpoint, o, by) ==
    LET r1 == SysUnmount(w, mountpoint, o = "syscall", by)
        r2 == SysUnmount(r1.w, mountpoint, o = "umount", by)
        r3 == SysUnmount(r2.w, mountpoint, o = "lazy", by)
    IN  IF ~r1.err THEN [w |-> r1.w, err |-> FALSE]
        ELSE IF ~r2.err THEN [w |-> r2.w, err |-> FALSE]
        ELSE [w |-> r3.w, err |-> r3.err]

\* os.MkdirTemp creates a directory whose name does not exist yet, or fails:
\* the names it may return (EmptyStr: it failed).
MkdirTempOutcomes(w, prefix) == {EmptyStr} \cup (TempNames(prefix) \ w.dirs)

\* CreateTempMountpoint(prefix), name being what os.MkdirTemp came up with.
CreateTempMountpoint(w, prefix, name, by) ==
    IF name = EmptyStr
    THEN [w |-> Logged(w, Entry("mkdirtemp", EmptyStr, "", FALSE, by)),
          ret |-> EmptyStr, err |-> TRUE]
    ELSE [w |-> Logged([w EXCEPT !.dirs = @ \cup {name}],
                       Entry("mkdirtemp", name, "", TRUE, by)),
          ret |-> name, err |-> FALSE]

\* IsMounted(path): the first result (some mount table line matches path).
IsMounted(tab, path) ==
    \E m \in tab : \/ m.Device = path
                   \/ m.Mountpoint = path
                   \/ HasPrefix(m.Device, path)

\* A mutant of CleanupMountpoint: the directory is removed whether or not the
\* unmount succeeded.
CleanupMountpointRemoveAnyway(w, mountpoint, statOk, um, by) ==
    LET w1 == Logged(w, Entry("ismounted", mountpoint, "", statOk, by))
        mounted == IsMounted(w.mtab, mountpoint)
        r2 == IF mounted THEN Unmount(w1, mountpoint, um, by)
                         ELSE [w |-> w1, err |-> FALSE]
        r3 == OsRemoveAll(r2.w, mountpoint, TRUE, by)
    IN  IF ~statOk THEN [w |-> w1, err |-> TRUE]
        ELSE [w |-> r3.w, err |-> r2.err \/ r3.err]

\* A mutant of CleanupMountpoint: the unmount is made without looking at the
\* mount table's answer.
CleanupMountpointAlwaysUnmount(w, mountpoint, statOk, um, by) ==
    LET w1 == Logged(w, Entry("ismounted", mountpoint, "", statOk, by))
        r2 == Unmount(w1, mountpoint, um, by)
        r3 == OsRemoveAll(r2.w, mountpoint, TRUE, by)
    IN  IF ~statOk THEN [w |-> w1, err |-> TRUE]
        ELSE IF r2.err THEN [w |-> r2.w, err |-> TRUE]
        ELSE [w |-> r3.w, err |-> r3.err]

\* CleanupMountpoint(mountpoint); statOk: the mount table could be read,
\* um: the outcome of the unmount, should one be made.
CleanupMountpoint(w, mountpoint, statOk, um, by) ==
    LET w1 == Logged(w, Entry("ismounted", mountpoint, "", statOk, by))
        mounted == IsMounted(w.mtab, mountpoint)
        r2 == IF mounted THEN Unmount(w1, mountpoint, um, by)
                         ELSE [w |-> w1, err |-> FALSE]
        r3 == OsRemoveAll(r2.w, mountpoint, TRUE, by)
    IN  IF ~statOk THEN [w |-> w1, err |-> TRUE]
        ELSE IF r2.err THEN [w |-> r2.w, err |-> TRUE]
        ELSE [w |-> r3.w, err |-> r3.err]

\* A mutant of MountISO: the temporary directory is left behind when both
\* mounts fail.
MountISOLeaveDir(w, isoPath, name, o1, o2, by) ==
    LET t  == CreateTempMountpoint(w, IsoPrefix, name, by)
        m1 == Mount(t.w, isoPath, t.ret, "udf", {"ro", "loop"}, o1, by)
        m2 == Mount(m1.w, isoPath, t.ret, "iso9660", {"ro", "loop"}, o2, by)
    IN  IF t.err THEN [w |-> t.w, ret |-> EmptyStr, err |-> TRUE]
        ELSE IF ~m1.err THEN [w |-> m1.w, ret |-> t.ret, err |-> FALSE]
        ELSE IF ~m2.err THEN [w |-> m2.w, ret |-> t.ret, err |-> FALSE]
        ELSE [w |-> m2.w, ret |-> EmptyStr, err |-> TRUE]

\* MountISO(isoPath); name: the temporary directory, o1 and o2: the outcomes of
\* the udf and the iso9660 mount.
MountISO(w, isoPath, name, o1, o2, by) ==
    LET t  == CreateTempMountpoint(w, IsoPrefix, name, by)
        m1 == Mount(t.w, isoPath, t.ret, "udf", {"ro", "loop"}, o1, by)
        m2 == Mount(m1.w, isoPath, t.ret, "iso9660", {"ro", "loop"}, o2, by)
        rm == OsRemoveAll(m2.w, t.ret, TRUE, by)
    IN  IF t.err THEN [w |-> t.w, ret |-> EmptyStr, err |-> TRUE]
        ELSE IF ~m1.err THEN [w |-> m1.w, ret |-> t.ret, err |-> FALSE]
        ELSE IF ~m2.err THEN [w |-> m2.w, ret |-> t.ret, err |-> FALSE]
        ELSE [w |-> rm.w, ret |-> EmptyStr, err |-> TRUE]

\* The switch of MountDevice that normalizes the filesystem type.
NormalizeFstype(fstype) ==
    CASE ToLower(fstype) \in {"fat", "fat32", "vfat"} -> "vfat"
      [] ToLower(fstype) \in {"ntfs", "ntfs-3g"}      -> "ntfs3"
      [] OTHER                                         -> fstype

\* MountDevice(devicePath, fstype); name: the temporary directory, o: the
\* outcome of the mount.
MountDevice(w, devicePath, fstype, name, o, by) ==
    LET t  == CreateTempMountpoint(w, DevPrefix, name, by)
        m  == Mount(t.w, devicePath, t.ret, NormalizeFstype(fstype), {}, o, by)
        rm == OsRemoveAll(m.w, t.ret, TRUE, by)
    IN  IF t.err THEN [w |-> t.w, ret |-> EmptyStr, err |-> TRUE]
        ELSE IF ~m.err THEN [w |-> m.w, ret |-> t.ret, err |-> FALSE]
        ELSE [w |-> rm.w, ret |-> EmptyStr, err |-> TRUE]

----------------------------------------------------------------------------
(* Package copy: byte counts.  An int64 byte count is the record [hi, lo],  *)
(* standing for hi * SizeBase + lo with lo < SizeBase, so that sizes around *)
(* 4 GiB are exact.                                                         *)

SizeBase == 1073741824

Sz(n) == [hi |-> n \div SizeBase, lo |-> n % SizeBase]

SzAdd(a, b) == [hi |-> a.hi + b.hi + ((a.lo + b.lo) \div SizeBase),
                lo |-> (a.lo + b.lo) % SizeBase]

SzLeq(a, b) == a.hi < b.hi \/ (a.hi = b.hi /\ a.lo <= b.lo)

SzLt(a, b) == a.hi < b.hi \/ (a.hi = b.hi /\ a.lo < b.lo)

\* a - b, for b <= a
SzSub(a, b) == IF a.lo >= b.lo
               THEN [hi |-> a.hi - b.hi, lo |-> a.lo - b.lo]
               ELSE [hi |-> a.hi - b.hi - 1, lo |-> a.lo + SizeBase - b.lo]

SzMin(a, b) == IF SzLeq(a, b) THEN a ELSE b

\* const ChunkSize = 1024 * 1024
ChunkSize == 1048576

\* const LargeFileThreshold = 5 * 1024 * 1024
LargeFileThreshold == 5242880

\* const FAT32MaxFileSize = 4*1024*1024*1024 - 1
FAT32MaxFileSize == [hi |-> 3, lo |-> SizeBase - 1]

\* const SplitWIMMaxSize = 3800
SplitWIMMaxSize == 3800

----------------------------------------------------------------------------
(* Package copy: paths.  A relative path is a sequence of tokens, "/"       *)
(* between the names, a file name being its stem and its extension.         *)

RootRel == <<".">>

\* strings.HasSuffix(s, suffix)
HasSuffix(s, suffix) ==
    /\ Len(suffix) <= Len(s)
    /\ SubSeq(s, Len(s) - Len(suffix) + 1, Len(s)) = suffix

\* The index of the last "/" of a path, 0 if it has none.
LastSlash(path) ==
    LET at == {i \in DOMAIN path : path[i] = "/"}
    IN  IF at = {} THEN 0 ELSE CHOOSE i \in at : \A j \in at : j <= i

\* filepath.Dir of a relative path
Dir(path) == IF LastSlash(path) = 0 THEN RootRel ELSE SubSeq(path, 1, LastSlash(path) - 1)

\* A mutant of IsWIMFile: every file passes for a WIM file.
IsWIMFileAny(path) == TRUE

\* IsWIMFile(path): strings.HasSuffix(strings.ToLower(path), ".wim")
IsWIMFile(path) == HasSuffix([i \in DOMAIN path |-> ToLower(path[i])], <<".wim">>)

----------------------------------------------------------------------------
(* Package copy: filepath.Walk.  The source tree is a sequence of entries   *)
(* in lexical depth-first order, each [rel, kind, size, statOk, listOk,     *)
(* parent]: kind is "dir", "file", "other" (neither, e.g. a symlink) or     *)
(* "absent"; statOk says whether os.Lstat of the entry succeeds, listOk     *)
(* whether the names of a directory can be read.  The tree does not change  *)
(* during a run.                                                            *)

\* Walk descends into entry i: it is a directory whose names could be read.
RECURSIVE Visited(_, _)
Descends(t, i) == Visited(t, i) /\ t[i].statOk /\ t[i].kind = "dir" /\ t[i].listOk

\* Walk calls the function on entry i.
Visited(t, i) ==
    /\ t[i].kind # "absent"
    /\ (t[i].parent = 0 \/ Descends(t, t[i].parent))

\* The err argument of the call on entry i is not nil.
WalkErr(t, i) == ~t[i].statOk \/ (t[i].kind = "dir" /\ ~t[i].listOk)

\* The entries Walk calls the function on, in order.
RECURSIVE WalkFrom(_, _)
WalkFrom(t, i) ==
    IF i > Len(t) THEN <<>>
    ELSE (IF Visited(t, i) THEN <<i>> ELSE <<>>) \o WalkFrom(t, i + 1)

Walk(t) == WalkFrom(t, 1)

IsRegular(e) == e.kind = "file"

IsDir(e) == e.kind = "dir"

----------------------------------------------------------------------------
(* Package copy: the scans.                                                 *)

NoStats == [TotalFiles |-> 0, TotalBytes |-> Sz(0), CopiedFiles |-> 0,
            CopiedBytes |-> Sz(0), CurrentFile |-> EmptyStr, Failed |-> <<>>]

\* calculateTotalSize: the walk function applied to the entries of w in turn.
RECURSIVE calculateTotalSizeFrom(_, _, _)
calculateTotalSizeFrom(t, w, st) ==
    IF w = <<>> THEN st
    ELSE LET e == t[Head(w)]
         IN  calculateTotalSizeFrom(t, Tail(w),
                 IF WalkErr(t, Head(w)) THEN st
                 ELSE IF IsRegular(e)
                      THEN [st EXCEPT !.TotalFiles = @ + 1,
                                      !.TotalBytes = SzAdd(@, e.size)]
                      ELSE st)

\* calculateTotalSize(srcMount): the stats; the error is always nil.
calculateTotalSize(t) == calculateTotalSizeFrom(t, Walk(t), NoStats)

RECURSIVE calculateTotalSizeExcludingFrom(_, _, _, _)
calculateTotalSizeExcludingFrom(t, w, excludeMap, st) ==
    IF w = <<>> THEN st
    ELSE LET e == t[Head(w)]
         IN  calculateTotalSizeExcludingFrom(t, Tail(w), excludeMap,
                 IF WalkErr(t, Head(w)) THEN st
                 ELSE IF e.rel \in excludeMap THEN st
                 ELSE IF IsRegular(e)
                      THEN [st EXCEPT !.TotalFiles = @ + 1,
                                      !.TotalBytes = SzAdd(@, e.size)]
                      ELSE st)

\* A mutant of calculateTotalSizeExcluding: no WIM file is counted.
calculateTotalSizeExcludingWIM(t, excludeFiles) ==
    calculateTotalSizeExcludingFrom(t, Walk(t),
        excludeFiles \cup {t[i].rel : i \in {k \in DOMAIN t : IsWIMFile(t[k].rel)}}, NoStats)

\* A mutant of calculateTotalSizeExcluding: the exclusion list is ignored.
calculateTotalSizeExcludingNone(t, excludeFiles) == calculateTotalSize(t)

\* calculateTotalSizeExcluding(srcMount, excludeFiles)
calculateTotalSizeExcluding(t, excludeFiles) ==
    calculateTotalSizeExcludingFrom(t, Walk(t), excludeFiles, NoStats)

\* A mutant of FindLargeFilesFrom: a file of exactly the limit is reported too.
RECURSIVE FindLargeFilesFromInclusive(_, _)
FindLargeFilesFromInclusive(t, w) ==
    IF w = <<>> THEN <<>>
    ELSE LET e == t[Head(w)]
         IN  (IF ~WalkErr(t, Head(w)) /\ IsRegular(e) /\ SzLeq(FAT32MaxFileSize, e.size)
              THEN <<[RelPath |-> e.rel, Size |-> e.size]>>
              ELSE <<>>) \o FindLargeFilesFromInclusive(t, Tail(w))

RECURSIVE FindLargeFilesFrom(_, _)
FindLargeFilesFrom(t, w) ==
    IF w = <<>> THEN <<>>
    ELSE LET e == t[Head(w)]
         IN  (IF ~WalkErr(t, Head(w)) /\ IsRegular(e) /\ SzLt(FAT32MaxFileSize, e.size)
              THEN <<[RelPath |-> e.rel, Size |-> e.size]>>
              ELSE <<>>) \o FindLargeFilesFrom(t, Tail(w))

Reverse(q) == [n \in 1..Len(q) |-> q[Len(q) + 1 - n]]

\* A mutant of FindLargeFiles: the files are reported last first.
FindLargeFilesReversed(t) == Reverse(FindLargeFilesFrom(t, Walk(t)))

\* FindLargeFiles(srcMount): the LargeFile values; the error is always nil.
FindLargeFiles(t) == FindLargeFilesFrom(t, Walk(t))

\* The value the walk function of the three scans returns on entry i:
\* if err != nil { return nil }; ...; return nil
scanWalkFn(t, i) == IF WalkErr(t, i) THEN "nil" ELSE "nil"

\* What filepath.Walk returns: the first value other than nil that the function
\* returned on the entries of w, nil when there is none.  (Walk hands an error
\* of os.Lstat or of reading a directory, the root included, to the function
\* and returns what the function returns.)
WalkReturn(t, w, rets) ==
    LET bad == {n \in DOMAIN w : rets[n] # "nil"}
    IN  IF bad = {} THEN "nil" ELSE rets[CHOOSE n \in bad : \A m \in bad : n <= m]

\* The error of calculateTotalSize, calculateTotalSizeExcluding and
\* FindLargeFiles: the one of filepath.Walk.
scanErr(t) == WalkReturn(t, Walk(t), [n \in DOMAIN Walk(t) |-> scanWalkFn(t, Walk(t)[n])])

----------------------------------------------------------------------------
(* Package copy: copyFile.  What the operating system answers is the        *)
(* outcome o = [kind, at, n]: "ok", or os.Open fails ("open"), os.Create    *)
(* fails ("create"), the read of chunk o.at fails having returned o.n bytes *)
(* ("read"), the write of chunk o.at fails ("write").  The result is        *)
(* [err, created, written, copied, calls]: whether an error is returned,    *)
(* whether the destination file was created, the bytes written to it,       *)
(* stats.CopiedBytes afterwards, and the bytesCopied values passed to the   *)
(* progress callback.                                                       *)

OkOutcome == [kind |-> "ok", at |-> 0, n |-> 0]

\* The loop of copyFile, about to read chunk k with done bytes written.
RECURSIVE ChunkLoop(_, _, _, _, _, _)
ChunkLoop(size, done, k, copied, calls, o) ==
    LET failing == o.kind = "read" /\ o.at = k
        remaining == SzSub(size, done)
        \* n, err := srcFile.Read(buffer)
        n == IF failing THEN SzMin(Sz(o.n), remaining) ELSE SzMin(Sz(ChunkSize), remaining)
        readErr == IF failing THEN "error" ELSE IF n = Sz(0) THEN "EOF" ELSE "nil"
        here(e) == [err |-> e, created |-> TRUE, written |-> done, copied |-> copied,
                    calls |-> calls]
    IN  IF n = Sz(0) THEN here(FALSE)                              \* if n == 0 { break }
        ELSE IF readErr \notin {"nil", "EOF"} THEN here(TRUE)      \* return err
        ELSE IF o.kind = "write" /\ o.at = k THEN here(TRUE)       \* return writeErr
        ELSE IF readErr = "EOF"
        THEN [err |-> FALSE, created |-> TRUE, written |-> SzAdd(done, n),
              copied |-> SzAdd(copied, n), calls |-> Append(calls, SzAdd(copied, n))]
        ELSE ChunkLoop(size, SzAdd(done, n), k + 1, SzAdd(copied, n),
                       Append(calls, SzAdd(copied, n)), o)

\* A mutant of copyFile: the direct strategy also for a file of exactly the threshold.
copyFileThresholdInclusive(fileSize, copiedBytes, o) ==
    IF o.kind \in {"open", "create"}
    THEN [err |-> TRUE, created |-> FALSE, written |-> Sz(0), copied |-> copiedBytes,
          calls |-> <<>>]
    ELSE IF SzLeq(fileSize, Sz(LargeFileThreshold))
    THEN IF o.kind \in {"read", "write"}
         THEN [err |-> TRUE, created |-> TRUE, written |-> Sz(0), copied |-> copiedBytes,
               calls |-> <<>>]
         ELSE [err |-> FALSE, created |-> TRUE, written |-> fileSize,
               copied |-> SzAdd(copiedBytes, fileSize),
               calls |-> <<SzAdd(copiedBytes, fileSize)>>]
    ELSE ChunkLoop(fileSize, Sz(0), 1, copiedBytes, <<>>, o)

\* copyFile(srcPath, dstPath, fileSize, stats, progressFn), the file holding
\* fileSize bytes and stats.CopiedBytes being copiedBytes.
copyFile(fileSize, copiedBytes, o) ==
    IF o.kind \in {"open", "create"}
    THEN [err |-> TRUE, created |-> FALSE, written |-> Sz(0), copied |-> copiedBytes,
          calls |-> <<>>]
    ELSE IF SzLt(fileSize, Sz(LargeFileThreshold))
    THEN \* _, err := io.Copy(dstFile, srcFile)
         IF o.kind \in {"read", "write"}
         THEN [err |-> TRUE, created |-> TRUE, written |-> Sz(0), copied |-> copiedBytes,
               calls |-> <<>>]
         ELSE [err |-> FALSE, created |-> TRUE, written |-> fileSize,
               copied |-> SzAdd(copiedBytes, fileSize),
               calls |-> <<SzAdd(copiedBytes, fileSize)>>]
    ELSE ChunkLoop(fileSize, Sz(0), 1, copiedBytes, <<>>, o)

----------------------------------------------------------------------------
(* The values the variables have where a specification does not use them.  *)

Procs   == {"main", "sig", "init"}
Callers == {"main", "sig"}

NoResources == [SourceMount |-> EmptyStr, TargetMount |-> EmptyStr, TempDir |-> EmptyStr]

NoCall == [fn |-> "none", arg |-> EmptyStr, ret |-> EmptyStr, err |-> FALSE,
           wasMounted |-> FALSE, hadDir |-> FALSE]

NoRun == [trace |-> TRUE, device |-> TRUE, filesystem |-> "FAT",
          srcMount |-> EmptyStr, dstMount |-> EmptyStr,
          signalled |-> FALSE, exited |-> "no"]

IdleCleanup ==
    /\ cpos   = [p \in Callers |-> 1]
    /\ errs   = [p \in Callers |-> <<>>]
    /\ result = [p \in Callers |-> <<>>]
    /\ ncalls = [p \in Callers |-> 0]
    /\ sess0  = [p \in Callers |-> NoResources]

cleanupVars == <<cpos, errs, result, ncalls, sess0>>

NoneTouched == [p \in Callers |-> {}]

NoCopyCall == [fileSize |-> Sz(0), start |-> Sz(0), o |-> OkOutcome, err |-> FALSE,
               created |-> FALSE, written |-> Sz(0), copied |-> Sz(0), calls |-> <<>>,
               called |-> FALSE]

NoReturn == [err |-> FALSE, msg |-> "", file |-> EmptyStr, size |-> Sz(0)]

IdleCp == [fn |-> "none", phase |-> "idle", i |-> 1, k |-> 1, largeFiles |-> <<>>,
           excludeFiles |-> {}, faults |-> 0, ret |-> NoReturn]

IdleCopy ==
    /\ tree = <<>>
    /\ dst = {}
    /\ stats = NoStats
    /\ events = <<>>
    /\ cp = IdleCp
    /\ lastCopy = NoCopyCall

----------------------------------------------------------------------------
(* Specification SpecMount: the functions of package mount, called in any  *)
(* order on a system where mounts may also be removed from outside.  The    *)
(* log holds the OS calls of the last call only.                           *)

FsTypes == {"vfat", "ntfs-3g"}

AllTempNames == TempNames(IsoPrefix) \cup TempNames(DevPrefix)

FreshWorld == [World EXCEPT !.log = <<>>]

InitMount ==
    /\ touched = NoneTouched
    /\ sess = NoResources
    /\ dirs = {}
    /\ mtab = {}
    /\ log = <<>>
    /\ pc = [p \in Procs |-> "idle"]
    /\ IdleCleanup
    /\ IdleCopy
    /\ last = NoCall
    /\ run = NoRun

Returned(r, fn, arg, wasMounted, hadDir) ==
    /\ dirs' = r.w.dirs
    /\ mtab' = r.w.mtab
    /\ log'  = r.w.log
    /\ UNCHANGED touched
    /\ last' = [fn |-> fn, arg |-> arg, ret |-> r.ret, err |-> r.err,
                wasMounted |-> wasMounted, hadDir |-> hadDir]
    /\ UNCHANGED <<sess, pc, cleanupVars, run>>

DoMountISO ==
    \E name \in MkdirTempOutcomes(World, IsoPrefix), o1, o2 \in MountOutcomes :
        Returned(MountISO(FreshWorld, IsoPath, name, o1, o2, "main"),
                 "MountISO", IsoPath, FALSE, FALSE)

DoMountDevice ==
    \E name \in MkdirTempOutcomes(World, DevPrefix), o \in MountOutcomes, fstype \in FsTypes :
        Returned(MountDevice(FreshWorld, DevicePath, fstype, name, o, "main"),
                 "MountDevice", DevicePath, FALSE, FALSE)

DoCleanupMountpoint ==
    \E mp \in AllTempNames, statOk \in BOOLEAN, um \in UnmountOutcomes :
        LET r == CleanupMountpoint(FreshWorld, mp, statOk, um, "main")
        IN  Returned([w |-> r.w, ret |-> EmptyStr, err |-> r.err],
                     "CleanupMountpoint", mp, IsMountpoint(mtab, mp), mp \in dirs)

\* Somebody else unmounts one of the mountpoints.
ExternalUnmount ==
    \E m \in mtab :
        /\ mtab' = mtab \ {m}
        /\ log' = <<>>
        /\ last' = NoCall
        /\ UNCHANGED <<sess, dirs, pc, cleanupVars, touched, run>>

NextMount ==
    \/ DoMountISO /\ UNCHANGED copyVars
    \/ DoMountDevice /\ UNCHANGED copyVars
    \/ DoCleanupMountpoint /\ UNCHANGED copyVars
    \/ ExternalUnmount /\ UNCHANGED copyVars

SpecMount == InitMount /\ [][NextMount]_vars

----------------------------------------------------------------------------
(* Session.Cleanup, one action per statement that reads or writes the      *)
(* session or calls the operating system, executed by caller p.            *)

\* The mutant of CleanupOrder: the target block before the source block.
CleanupOrderTargetFirst == <<"TargetMount", "SourceMount", "TempDir">>

\* The three resource blocks of Cleanup, in the order of the statements.
CleanupOrder == <<"SourceMount", "TargetMount", "TempDir">>

\* The field the caller's current block is about.
Field(p) == CleanupOrder[cpos[p]]

\* The message of the error a block appends to errs.
ErrMsg(f) ==
    CASE f = "SourceMount" -> "unmount source"
      [] f = "TargetMount" -> "unmount target"
      [] f = "TempDir"     -> "remove temp dir"

ReleaseOps == {"unmount", "remove", "removeall"}

\* The paths that the entries of l after the first n say caller p tried to
\* unmount or remove.
TouchedBy(p, l, n) ==
    {l[i].path : i \in {k \in (n + 1)..Len(l) : l[k].by = p /\ l[k].op \in ReleaseOps}}

\* The OS calls made, w being the world after them.
SetWorld(w) ==
    /\ dirs' = w.dirs
    /\ mtab' = w.mtab
    /\ log'  = IF run.trace THEN w.log ELSE <<>>
    /\ touched' = [p \in Callers |-> touched[p] \cup TouchedBy(p, w.log, Len(log))]

\* The OS calls of an acquisition that had os.MkdirTemp return name: a directory
\* it creates is a new one, which nobody has tried to release yet, and removing
\* it again when the mount fails is not a release.
SetWorldAcquired(w, name) ==
    /\ dirs' = w.dirs
    /\ mtab' = w.mtab
    /\ log'  = IF run.trace THEN w.log ELSE <<>>
    /\ touched' = [p \in Callers |-> touched[p] \ {name}]

\* The call: var errs []error.
CleanupCalled(p) ==
    /\ cpos'   = [cpos EXCEPT ![p] = 1]
    /\ errs'   = [errs EXCEPT ![p] = <<>>]
    /\ ncalls' = [ncalls EXCEPT ![p] = @ + 1]
    /\ sess0'  = [sess0 EXCEPT ![p] = sess]
    /\ UNCHANGED result

\* if s.SourceMount != "" / if s.TargetMount != "" / if s.TempDir != ""
CleanupCheck(p) ==
    /\ pc[p] = "check"
    /\ cpos[p] <= Len(CleanupOrder)
    /\ IF sess[Field(p)] = EmptyStr
       THEN /\ cpos' = [cpos EXCEPT ![p] = @ + 1]
            /\ UNCHANGED pc
       ELSE /\ pc' = [pc EXCEPT ![p] = IF Field(p) = "TempDir" THEN "rmtemp" ELSE "unmount"]
            /\ UNCHANGED cpos
    /\ UNCHANGED <<sess, dirs, mtab, log, touched, errs, result, ncalls, sess0, last, run>>

\* The mutant of CleanupUnmount: a failed unmount ends the cleanup.
CleanupUnmountAbort(p) ==
    /\ pc[p] = "unmount"
    /\ \E good \in BOOLEAN :
        LET r == SysUnmount(World, sess[Field(p)], good, p)
        IN  /\ SetWorld(r.w)
            /\ IF r.err
               THEN /\ errs' = [errs EXCEPT ![p] = Append(@, ErrMsg(Field(p)))]
                    /\ cpos' = [cpos EXCEPT ![p] = Len(CleanupOrder) + 1]
                    /\ pc'   = [pc EXCEPT ![p] = "check"]
               ELSE /\ pc' = [pc EXCEPT ![p] = "remove"]
                    /\ UNCHANGED <<errs, cpos>>
    /\ UNCHANGED <<sess, result, ncalls, sess0, last, run>>

\* A mutant of CleanupUnmount: the directory is removed also after a failed
\* unmount.
CleanupUnmountThenRemove(p) ==
    /\ pc[p] = "unmount"
    /\ \E good \in BOOLEAN :
        LET r == SysUnmount(World, sess[Field(p)], good, p)
        IN  /\ SetWorld(r.w)
            /\ errs' = [errs EXCEPT ![p] = IF r.err THEN Append(@, ErrMsg(Field(p))) ELSE @]
            /\ pc' = [pc EXCEPT ![p] = "remove"]
            /\ UNCHANGED cpos
    /\ UNCHANGED <<sess, result, ncalls, sess0, last, run>>

\* if err := syscall.Unmount(s.XMount, 0); err != nil { errs = append(...) } else ...
CleanupUnmount(p) ==
    /\ pc[p] = "unmount"
    /\ \E good \in BOOLEAN :
        LET r == SysUnmount(World, sess[Field(p)], good, p)
        IN  /\ SetWorld(r.w)
            /\ IF r.err
               THEN /\ errs' = [errs EXCEPT ![p] = Append(@, ErrMsg(Field(p)))]
                    /\ cpos' = [cpos EXCEPT ![p] = @ + 1]
                    /\ pc'   = [pc EXCEPT ![p] = "check"]
               ELSE /\ pc' = [pc EXCEPT ![p] = "remove"]
                    /\ UNCHANGED <<errs, cpos>>
    /\ UNCHANGED <<sess, result, ncalls, sess0, last, run>>

\* _ = os.Remove(s.XMount)
CleanupRemove(p) ==
    /\ pc[p] = "remove"
    /\ SetWorld(OsRemove(World, sess[Field(p)], p).w)
    /\ pc' = [pc EXCEPT ![p] = "clear"]
    /\ UNCHANGED <<sess, cleanupVars, last, run>>

\* if err := os.RemoveAll(s.TempDir); err != nil { errs = append(...) }
CleanupRemoveTemp(p) ==
    /\ pc[p] = "rmtemp"
    /\ \E good \in BOOLEAN :
        LET r == OsRemoveAll(World, sess[Field(p)], good, p)
        IN  /\ SetWorld(r.w)
            /\ errs' = [errs EXCEPT ![p] = IF r.err THEN Append(@, ErrMsg(Field(p))) ELSE @]
    /\ pc' = [pc EXCEPT ![p] = "clear"]
    /\ UNCHANGED <<sess, cpos, result, ncalls, sess0, last, run>>

\* s.SourceMount = "" / s.TargetMount = "" / s.TempDir = ""
CleanupClear(p) ==
    /\ pc[p] = "clear"
    /\ sess' = [sess EXCEPT ![Field(p)] = EmptyStr]
    /\ cpos' = [cpos EXCEPT ![p] = @ + 1]
    /\ pc' = [pc EXCEPT ![p] = "check"]
    /\ UNCHANGED <<dirs, mtab, log, touched, errs, result, ncalls, sess0, last, run>>

\* if len(errs) > 0 { return fmt.Errorf("cleanup errors: %v", errs) }; return nil
CleanupReturn(p) ==
    /\ pc[p] = "check"
    /\ cpos[p] > Len(CleanupOrder)
    /\ result' = [result EXCEPT ![p] = errs[p]]
    /\ pc' = [pc EXCEPT ![p] = "returned"]
    /\ UNCHANGED <<sess, dirs, mtab, log, touched, cpos, errs, ncalls, sess0, last, run>>

----------------------------------------------------------------------------
(* Specification SpecCleanup: Session.Cleanup called up to MaxCalls times  *)
(* in a row by one caller, from every state of the session's fields and    *)
(* of the paths they name.  The log holds the OS calls of the current call.*)

MountOf(mp) ==
    IF mp = SrcMp
    THEN [Device |-> LoopDev, Mountpoint |-> mp, Filesystem |-> "udf"]
    ELSE [Device |-> DevicePath, Mountpoint |-> mp, Filesystem |-> "vfat"]

InitCleanup ==
    /\ touched = NoneTouched
    /\ sess \in [SourceMount : {EmptyStr, SrcMp}, TargetMount : {EmptyStr, DstMp},
                 TempDir : {EmptyStr, TmpDir}]
    /\ dirs \in SUBSET {SrcMp, DstMp, TmpDir}
    /\ \E mounted \in SUBSET (dirs \cap {SrcMp, DstMp}) :
           mtab = {MountOf(mp) : mp \in mounted}
    /\ log = <<>>
    /\ pc = [p \in Procs |-> "idle"]
    /\ IdleCleanup
    /\ IdleCopy
    /\ last = NoCall
    /\ run = NoRun

CallCleanup ==
    /\ pc["main"] \in {"idle", "returned"}
    /\ ncalls["main"] < MaxCalls
    /\ pc' = [pc EXCEPT !["main"] = "check"]
    /\ CleanupCalled("main")
    /\ log' = <<>>
    /\ UNCHANGED <<sess, dirs, mtab, last, touched, run>>

NextCleanup ==
    \/ CallCleanup /\ UNCHANGED copyVars
    \/ CleanupCheck("main") /\ UNCHANGED copyVars
    \/ CleanupUnmount("main") /\ UNCHANGED copyVars
    \/ CleanupRemove("main") /\ UNCHANGED copyVars
    \/ CleanupRemoveTemp("main") /\ UNCHANGED copyVars
    \/ CleanupClear("main") /\ UNCHANGED copyVars
    \/ CleanupReturn("main") /\ UNCHANGED copyVars

SpecCleanup == InitCleanup /\ [][NextCleanup]_vars

----------------------------------------------------------------------------
(* Claims about Session.Cleanup, checked under SpecCleanup.                *)

Finished(p) == pc[p] = "returned"

AttemptAt(i, op, path) == log[i].op = op /\ log[i].path = path

\* C1: after Session.Cleanup returns, SourceMount, TargetMount and TempDir are
\* all empty, whatever the session held and whatever each unmount and removal
\* answered.
C1_FieldsEmptyAfterCleanup ==
    Finished("main") => sess = NoResources

\* C2: when Cleanup is called twice in succession, the second call returns nil
\* and makes no unmount or removal attempt, also after a failed release in the
\* first call.
C2_SecondCleanupDoesNothing ==
    (Finished("main") /\ ncalls["main"] >= 2) => (result["main"] = <<>> /\ log = <<>>)

\* The place of a path in the order source mount, target mount, temp directory.
Rank(path) ==
    CASE path = SrcMp -> 1
      [] path = DstMp -> 2
      [] OTHER        -> 3

\* C6 as stated: the unmount of TargetMount is attempted before the unmount of
\* SourceMount.
C6_TargetBeforeSource ==
    \A i, j \in DOMAIN log :
        (AttemptAt(i, "unmount", SrcMp) /\ AttemptAt(j, "unmount", DstMp)) => j < i

\* C6 as amended: Cleanup attempts its releases in the order source mount, target
\* mount, temp directory: every OS call about the source mountpoint precedes
\* every call about the target mountpoint, the removal of the temp directory is
\* the last call, and a call that started with both mount fields set has made
\* the unmount attempt on SourceMount before the one on TargetMount.
C6_SourceThenTargetThenTemp ==
    /\ \A i, j \in DOMAIN log : i < j => Rank(log[i].path) <= Rank(log[j].path)
    /\ \A i \in DOMAIN log : AttemptAt(i, "removeall", TmpDir) => i = Len(log)
    /\ (Finished("main") /\ sess0["main"].SourceMount # EmptyStr
                         /\ sess0["main"].TargetMount # EmptyStr)
       => \E i, j \in DOMAIN log :
              i < j /\ AttemptAt(i, "unmount", SrcMp) /\ AttemptAt(j, "unmount", DstMp)

\* A call that unmounted both mountpoints and then removed the temp directory.
C6_Witness ==
    /\ Finished("main")
    /\ \E i, j, k \in DOMAIN log :
          /\ i < j /\ j < k
          /\ AttemptAt(i, "unmount", SrcMp) /\ log[i].ok
          /\ AttemptAt(j, "unmount", DstMp) /\ log[j].ok
          /\ AttemptAt(k, "removeall", TmpDir)

IsFailure(e) == ~e.ok

\* The error a failed OS call of Cleanup stands for.
MsgOf(e) ==
    CASE e.op = "unmount" /\ e.path = SrcMp -> "unmount source"
      [] e.op = "unmount" /\ e.path = DstMp -> "unmount target"
      [] e.op = "removeall"                 -> "remove temp dir"
      [] OTHER                              -> "remove mountpoint"

FailedMsgs == [i \in 1..Len(SelectSeq(log, IsFailure)) |-> MsgOf(SelectSeq(log, IsFailure)[i])]

ReleaseOp(f) == IF f = "TempDir" THEN "removeall" ELSE "unmount"

----------------------------------------------------------------------------
(* Claims about package mount, checked under SpecMount.                    *)

Called(fn) == last.fn = fn

OpAt(i, op) == log[i].op = op

\* The directory the last call created, if it created one.
Created == {log[i].path : i \in {k \in DOMAIN log : OpAt(k, "mkdirtemp") /\ log[k].ok}}

StatusFailed  == \E i \in DOMAIN log : OpAt(i, "ismounted") /\ ~log[i].ok

UnmountFailed == /\ \E i \in DOMAIN log : OpAt(i, "unmount")
                 /\ \A i \in DOMAIN log : OpAt(i, "unmount") => ~log[i].ok

RemovalAttempted == \E i \in DOMAIN log : OpAt(i, "removeall")

----------------------------------------------------------------------------
(* Specification Spec: one CLI run of cmd/woeusb/main.go.  Three threads of *)
(* control: main, the goroutine of Session.SetupSignalHandler ("sig") and  *)
(* the goroutine that init() of package main starts ("init").  The process *)
(* ends (run.exited) by main returning ("done"), by an os.Exit(1) of main  *)
(* ("fatal") or by the os.Exit(1) of one of the two listeners.  The log     *)
(* is not kept (run.trace is FALSE): touched records who released what.    *)
(* No statement of the run sets sess.TempDir, so that the temp directory   *)
(* block of Cleanup is always skipped at its check.                        *)

Alive == run.exited = "no"

InitRun ==
    /\ touched = NoneTouched
    /\ sess = NoResources
    /\ dirs = {}
    /\ mtab = {}
    /\ log = <<>>
    /\ pc = [main |-> "setup", sig |-> "off", init |-> "wait"]
    /\ IdleCleanup
    /\ IdleCopy
    /\ last = NoCall
    /\ \E d \in BOOLEAN, fs \in {"FAT", "NTFS"} :
           run = [NoRun EXCEPT !.trace = FALSE, !.device = d, !.filesystem = fs]

Goto(p, where) == pc' = [pc EXCEPT ![p] = where]

\* os.Exit(1) in main: the process ends at once, deferred calls do not run.
MainExit1 ==
    /\ run' = [run EXCEPT !.exited = "fatal"]
    /\ UNCHANGED pc

\* A step of main that only succeeds or fails; its failure is fatal.
MainStep(from, to) ==
    /\ pc["main"] = from
    /\ \E ok \in BOOLEAN :
           IF ok THEN Goto("main", to) /\ UNCHANGED run
                 ELSE MainExit1
    /\ UNCHANGED <<sess, dirs, mtab, log, touched, cleanupVars, last>>

\* main: sess.SetupSignalHandler(); defer func() { _ = sess.Cleanup() }()
MainSetup ==
    /\ pc["main"] = "setup"
    /\ pc' = [pc EXCEPT !["main"] = "deps", !["sig"] = "wait"]
    /\ UNCHANGED <<sess, dirs, mtab, log, touched, cleanupVars, last, run>>

\* main: checkDependencies()
MainCheckDependencies == MainStep("deps", "validate")

\* main: validateInputs(cfg)
MainValidateInputs == MainStep("validate", "mount_src")

\* mountSource(source): os.Stat, then MountISO for a regular file and
\* MountDevice(source, "auto") otherwise.
mountSource(w, source, statOk, name, o1, o2, by) ==
    IF ~statOk THEN [w |-> w, ret |-> EmptyStr, err |-> TRUE]
    ELSE IF source \in RegularFiles THEN MountISO(w, source, name, o1, o2, by)
    ELSE MountDevice(w, source, "auto", name, o1, by)

\* executeDeviceMode / executePartitionMode: srcMount, err := mountSource(...);
\* sess.SourceMount = srcMount.  cfg.source is an image file or a DVD device.
MainMountSource ==
    /\ pc["main"] = "mount_src"
    /\ \E source \in {IsoPath, DvdDevice}, statOk \in BOOLEAN, o1, o2 \in MountOutcomes :
       \E name \in MkdirTempOutcomes(World, IF source \in RegularFiles
                                            THEN IsoPrefix ELSE DevPrefix) :
        LET r == mountSource(World, source, statOk, name, o1, o2, "main")
        IN  /\ SetWorldAcquired(r.w, name)
            /\ IF r.err
               THEN MainExit1 /\ UNCHANGED sess
               ELSE /\ sess' = [sess EXCEPT !.SourceMount = r.ret]
                    /\ run' = [run EXCEPT !.srcMount = r.ret]
                    /\ Goto("main", IF run.device THEN "partition" ELSE "format")
    /\ UNCHANGED <<cleanupVars, last>>

\* executeDeviceMode: partition.CreateBootablePartition(cfg.target, cfg.filesystem)
MainCreatePartition == MainStep("partition", "format")

\* filesystem.FormatPartition(mainPartition, cfg.filesystem, cfg.label)
MainFormat == MainStep("format", "mount_dst")

\* fsType := "vfat"; if cfg.filesystem == "NTFS" { fsType = "ntfs-3g" }
TargetFsType(filesystem) == IF filesystem = "NTFS" THEN "ntfs-3g" ELSE "vfat"

\* dstMount, err := mount.MountDevice(mainPartition, fsType); sess.TargetMount = dstMount
MainMountTarget ==
    /\ pc["main"] = "mount_dst"
    /\ \E o \in MountOutcomes, name \in MkdirTempOutcomes(World, DevPrefix) :
        LET r == MountDevice(World, DevicePath, TargetFsType(run.filesystem), name, o, "main")
        IN  /\ SetWorldAcquired(r.w, name)
            /\ IF r.err
               THEN MainExit1 /\ UNCHANGED sess
               ELSE /\ sess' = [sess EXCEPT !.TargetMount = r.ret]
                    /\ run' = [run EXCEPT !.dstMount = r.ret]
                    /\ Goto("main", "copy")
    /\ UNCHANGED <<cleanupVars, last>>

\* filecopy.CopyWindowsISOWithWIMSplit(srcMount, dstMount, filecopy.PrintProgress)
\* followed in device mode by: if cfg.biosBootFlag { ... }
MainCopy ==
    /\ pc["main"] = "copy"
    /\ \E ok, biosBootFlag \in BOOLEAN :
           IF ok THEN /\ Goto("main", IF run.device /\ biosBootFlag THEN "bootflag"
                                                                    ELSE "clean_dst")
                      /\ UNCHANGED run
                 ELSE MainExit1
    /\ UNCHANGED <<sess, dirs, mtab, log, touched, cleanupVars, last>>

\* executeDeviceMode: partition.SetBootFlag(cfg.target, 1).  The GRUB step that
\* follows only warns when it fails.
MainSetBootFlag == MainStep("bootflag", "clean_dst")

\* mount.CleanupMountpoint(dstMount), then mount.CleanupMountpoint(srcMount):
\* an error is only a warning.
MainCleanupMountpoint(from, mp, to) ==
    /\ pc["main"] = from
    /\ \E statOk \in BOOLEAN, um \in UnmountOutcomes :
           SetWorld(CleanupMountpoint(World, mp, statOk, um, "main").w)
    /\ Goto("main", to)
    /\ UNCHANGED <<sess, cleanupVars, last, run>>

MainCleanupTarget == MainCleanupMountpoint("clean_dst", run.dstMount, "clean_src")

MainCleanupSource == MainCleanupMountpoint("clean_src", run.srcMount, "clear")

\* sess.SourceMount = ""; sess.TargetMount = ""
MainClearFields ==
    /\ pc["main"] = "clear"
    /\ sess' = [sess EXCEPT !.SourceMount = EmptyStr, !.TargetMount = EmptyStr]
    /\ Goto("main", "return")
    /\ UNCHANGED <<dirs, mtab, log, touched, cleanupVars, last, run>>

\* main returns: the deferred sess.Cleanup() is called.
MainReturn ==
    /\ pc["main"] = "return"
    /\ Goto("main", "check")
    /\ CleanupCalled("main")
    /\ UNCHANGED <<sess, dirs, mtab, log, touched, last, run>>

\* The deferred call has returned: the process ends.
MainDone ==
    /\ pc["main"] = "returned"
    /\ run' = [run EXCEPT !.exited = "done"]
    /\ UNCHANGED <<sess, dirs, mtab, log, touched, pc, cleanupVars, last>>

\* SIGINT or SIGTERM is delivered to every channel registered with signal.Notify:
\* that of init() and, once SetupSignalHandler has run, that of the session.
Signal ==
    /\ ~run.signalled
    /\ run' = [run EXCEPT !.signalled = TRUE]
    /\ pc' = [pc EXCEPT !["init"] = "run",
                        !["sig"] = IF pc["sig"] = "wait" THEN "run" ELSE @]
    /\ UNCHANGED <<sess, dirs, mtab, log, touched, cleanupVars, last>>

\* init(): <-c; output.Warning(...); os.Exit(1)
InitListenerExit ==
    /\ pc["init"] = "run"
    /\ run' = [run EXCEPT !.exited = "init"]
    /\ UNCHANGED <<sess, dirs, mtab, log, touched, pc, cleanupVars, last>>

\* SetupSignalHandler: <-c; fmt.Fprintln(...); _ = s.Cleanup()
SigListenerCleanup ==
    /\ pc["sig"] = "run"
    /\ Goto("sig", "check")
    /\ CleanupCalled("sig")
    /\ UNCHANGED <<sess, dirs, mtab, log, touched, last, run>>

\* SetupSignalHandler: os.Exit(1)
SigListenerExit ==
    /\ pc["sig"] = "returned"
    /\ run' = [run EXCEPT !.exited = "sig"]
    /\ UNCHANGED <<sess, dirs, mtab, log, touched, pc, cleanupVars, last>>

Next ==
    \/ Alive /\ MainSetup /\ UNCHANGED copyVars
    \/ Alive /\ MainCheckDependencies /\ UNCHANGED copyVars
    \/ Alive /\ MainValidateInputs /\ UNCHANGED copyVars
    \/ Alive /\ MainMountSource /\ UNCHANGED copyVars
    \/ Alive /\ MainCreatePartition /\ UNCHANGED copyVars
    \/ Alive /\ MainFormat /\ UNCHANGED copyVars
    \/ Alive /\ MainMountTarget /\ UNCHANGED copyVars
    \/ Alive /\ MainCopy /\ UNCHANGED copyVars
    \/ Alive /\ MainSetBootFlag /\ UNCHANGED copyVars
    \/ Alive /\ MainCleanupTarget /\ UNCHANGED copyVars
    \/ Alive /\ MainCleanupSource /\ UNCHANGED copyVars
    \/ Alive /\ MainClearFields /\ UNCHANGED copyVars
    \/ Alive /\ MainReturn /\ UNCHANGED copyVars
    \/ Alive /\ MainDone /\ UNCHANGED copyVars
    \/ Alive /\ Signal /\ UNCHANGED copyVars
    \/ Alive /\ InitListenerExit /\ UNCHANGED copyVars
    \/ Alive /\ SigListenerCleanup /\ UNCHANGED copyVars
    \/ Alive /\ SigListenerExit /\ UNCHANGED copyVars
    \/ Alive /\ CleanupCheck("main") /\ UNCHANGED copyVars
    \/ Alive /\ CleanupUnmount("main") /\ UNCHANGED copyVars
    \/ Alive /\ CleanupRemove("main") /\ UNCHANGED copyVars
    \/ Alive /\ CleanupClear("main") /\ UNCHANGED copyVars
    \/ Alive /\ CleanupReturn("main") /\ UNCHANGED copyVars
    \/ Alive /\ CleanupCheck("sig") /\ UNCHANGED copyVars
    \/ Alive /\ CleanupUnmount("sig") /\ UNCHANGED copyVars
    \/ Alive /\ CleanupRemove("sig") /\ UNCHANGED copyVars
    \/ Alive /\ CleanupClear("sig") /\ UNCHANGED copyVars
    \/ Alive /\ CleanupReturn("sig") /\ UNCHANGED copyVars

Spec == InitRun /\ [][Next]_vars

----------------------------------------------------------------------------
(* Claims about the CLI run, checked under Spec.                           *)

MountFields == {"SourceMount", "TargetMount"}

\* C3: when the run ends with a fatal error after a mount was acquired,
\* Session.Cleanup runs before the process exits: main has attempted the release
\* of every mountpoint the session records.
C3_CleanupBeforeFatalExit ==
    run.exited = "fatal" =>
        \A f \in MountFields : sess[f] # EmptyStr => sess[f] \in touched["main"]

\* C4: when a signal arrives, Session.Cleanup is invoked and runs to completion
\* before the process exits; the listener of init() does not end the process
\* while the session's listener, which has received the signal and has a
\* mountpoint to release, has not finished its Cleanup.
C4_SignalCleanupCompletes ==
    (/\ run.exited = "init"
     /\ pc["sig"] \notin {"off", "wait"}
     /\ \E f \in MountFields : sess[f] # EmptyStr)
    => pc["sig"] = "returned"

\* C5: under every interleaving of the signal listener's Cleanup with main's
\* release of the same resources, no mountpoint is unmounted or removed by both.
C5_NoDoubleRelease ==
    touched["main"] \cap touched["sig"] = {}

----------------------------------------------------------------------------
(* Specification SpecCopy: one call of CopyWithProgress, of                 *)
(* copyFilesExcluding (on the stats of calculateTotalSizeExcluding) or of   *)
(* CopyWindowsISOWithWIMSplit, on a source tree and an empty destination.   *)
(* The tree is the directory ".", a file in it, the directory "sources"     *)
(* and files in that.  The destination is a set of [rel, kind, bytes]: the  *)
(* directories made, the files created with the number of bytes written to  *)
(* them (the first bytes of the source file of that name), and the parts    *)
(* written by a split.                                                      *)

FileStems == <<"boot", "install", "setup", "update">>

\* 4 GiB
Big == [hi |-> 4, lo |-> 0]

Absent == [rel |-> EmptyStr, kind |-> "absent", size |-> Sz(0), statOk |-> TRUE,
           listOk |-> TRUE, parent |-> 0]

DirEntry(rel, parent, statOk, listOk) ==
    [rel |-> rel, kind |-> "dir", size |-> Sz(0), statOk |-> statOk, listOk |-> listOk,
     parent |-> parent]

FileRel(j, ext) == IF j = 1 THEN <<"autorun", ext>>
                            ELSE <<"sources", "/", FileStems[j - 1], ext>>

FileParent(j) == IF j = 1 THEN 1 ELSE 3

FileEntry(j, kind, size, ext, statOk) ==
    [rel |-> FileRel(j, ext), kind |-> kind, size |-> size, statOk |-> statOk,
     listOk |-> TRUE, parent |-> FileParent(j)]

FileOptions(j) ==
    {Absent,
     FileEntry(j, "file", Sz(5), ".bin", FALSE),
     FileEntry(j, "other", Sz(5), ".bin", TRUE),
     FileEntry(j, "file", Sz(5), ".bin", TRUE),
     FileEntry(j, "file", Sz(5), ".wim", TRUE),
     FileEntry(j, "file", Sz(LargeFileThreshold), ".bin", TRUE),
     FileEntry(j, "file", Big, ".wim", TRUE),
     FileEntry(j, "file", Big, ".WIM", TRUE),
     FileEntry(j, "file", Big, ".bin", TRUE)}

DirOptions(rel, parent) ==
    {DirEntry(rel, parent, TRUE, TRUE), DirEntry(rel, parent, TRUE, FALSE),
     DirEntry(rel, parent, FALSE, TRUE)}

Tree(root, sources, f) == <<root, f[1], sources>> \o [j \in 1..(MaxFiles - 1) |-> f[j + 1]]

\* The files a tree may hold whose directory "sources" is the entry sources;
\* what Walk cannot reach is left out.
FileChoices(sources) ==
    {g \in [1..MaxFiles -> UNION {FileOptions(j) : j \in 1..MaxFiles}] :
        /\ \A j \in 1..MaxFiles : g[j] \in FileOptions(j)
        /\ \A j \in 2..MaxFiles :
               (sources = Absent \/ ~sources.statOk \/ ~sources.listOk) => g[j] = Absent}

Trees ==
    UNION {{Tree(root, sources, f) : root \in DirOptions(RootRel, 0),
                                     f \in FileChoices(sources)} :
           sources \in DirOptions(<<"sources">>, 1) \cup {Absent}}

ReachableTrees ==
    {t \in Trees : (~t[1].statOk \/ ~t[1].listOk) => \A i \in 2..Len(t) : t[i] = Absent}

\* The regular files of t that Walk hands to the function without an error.
Files(t) == {i \in DOMAIN t : Visited(t, i) /\ ~WalkErr(t, i) /\ IsRegular(t[i])}

Oversized(t) == {i \in Files(t) : SzLt(FAT32MaxFileSize, t[i].size)}

InitCopy ==
    /\ touched = NoneTouched
    /\ sess = NoResources
    /\ dirs = {}
    /\ mtab = {}
    /\ log = <<>>
    /\ pc = [p \in Procs |-> "idle"]
    /\ IdleCleanup
    /\ last = NoCall
    /\ run = NoRun
    /\ tree \in ReachableTrees
    /\ dst = {}
    /\ stats = NoStats
    /\ events = <<>>
    /\ cp = IdleCp
    /\ lastCopy = NoCopyCall

otherVars == <<sess, dirs, mtab, log, pc, cpos, errs, result, ncalls, sess0, last, touched, run>>

Ev(op, path, ok, done, total) ==
    [op |-> op, path |-> path, ok |-> ok, done |-> done, total |-> total]

\* progressFn(stats.CopiedBytes, stats.TotalBytes, stats.CurrentFile)
Progress(file, done, total) == Ev("progress", file, TRUE, done, total)

ProgressCalls(file, calls, total) ==
    [n \in 1..Len(calls) |-> Progress(file, calls[n], total)]

DstDirExists(d, rel) == rel = RootRel \/ [rel |-> rel, kind |-> "dir", bytes |-> Sz(0)] \in d

\* The destination after a file or directory was written at rel.
DstPut(d, rel, kind, bytes) ==
    {x \in d : x.rel # rel} \cup {[rel |-> rel, kind |-> kind, bytes |-> bytes]}

\* What may go wrong with the copy of one file during a tree copy.
TreeCopyOutcomes ==
    {OkOutcome, [kind |-> "open", at |-> 0, n |-> 0], [kind |-> "read", at |-> 2, n |-> 0],
     [kind |-> "write", at |-> 2, n |-> 0]}

\* Whether outcome o has the operating system fail a call.
IsFault(o) == o # OkOutcome

Returns(err, msg, file, size) ==
    cp' = [cp EXCEPT !.phase = "returned",
                     !.ret = [err |-> err, msg |-> msg, file |-> file, size |-> size]]

\* CopyWithProgress: stats, err := calculateTotalSize(srcMount); copyFiles(...)
CallCopyWithProgress ==
    /\ cp.phase = "idle"
    /\ Oversized(tree) = {}
    /\ IF scanErr(tree) # "nil"
       THEN /\ cp' = [cp EXCEPT !.fn = "CopyWithProgress", !.phase = "returned",
                                !.ret = [err |-> TRUE, msg |-> "failed to calculate total size",
                                         file |-> EmptyStr, size |-> Sz(0)]]
            /\ UNCHANGED stats
       ELSE /\ stats' = calculateTotalSize(tree)
            /\ cp' = [cp EXCEPT !.fn = "CopyWithProgress", !.phase = "walk"]
    /\ UNCHANGED <<tree, dst, events, lastCopy, otherVars>>

\* The paths a caller may put in the exclusion list: those of the files of the
\* tree, and one that is not in the tree.
ExcludeCandidates(t) == {t[i].rel : i \in Files(t)} \cup {<<"missing", ".txt">>}

\* stats, _ := calculateTotalSizeExcluding(srcMount, excludeFiles);
\* copyFilesExcluding(srcMount, dstMount, excludeFiles, stats, progressFn)
CallCopyFilesExcluding ==
    /\ cp.phase = "idle"
    /\ \E excludeFiles \in SUBSET ExcludeCandidates(tree) :
        /\ \A i \in Oversized(tree) : tree[i].rel \in excludeFiles
        /\ stats' = calculateTotalSizeExcluding(tree, excludeFiles)
        /\ cp' = [cp EXCEPT !.fn = "copyFilesExcluding", !.phase = "walk",
                            !.excludeFiles = excludeFiles]
    /\ UNCHANGED <<tree, dst, events, lastCopy, otherVars>>

\* The first element of largeFiles that is no WIM file, 0 if there is none.
FirstNotWIM(largeFiles) ==
    LET bad == {n \in DOMAIN largeFiles : ~IsWIMFile(largeFiles[n].RelPath)}
    IN  IF bad = {} THEN 0 ELSE CHOOSE n \in bad : \A m \in bad : n <= m

\* CopyWindowsISOWithWIMSplit up to the first pass: FindLargeFiles, the check
\* that every large file is a WIM file, the exclusion list, the totals.
CallCopyWindowsISOWithWIMSplit ==
    /\ cp.phase = "idle"
    /\ LET largeFiles == FindLargeFiles(tree)
           bad == FirstNotWIM(largeFiles)
           excludeFiles == {largeFiles[n].RelPath : n \in DOMAIN largeFiles}
       IN  IF scanErr(tree) # "nil"
           THEN /\ cp' = [cp EXCEPT !.fn = "CopyWindowsISOWithWIMSplit",
                                    !.phase = "returned",
                                    !.ret = [err |-> TRUE, msg |-> "failed to scan for large files",
                                             file |-> EmptyStr, size |-> Sz(0)]]
                /\ UNCHANGED stats
           ELSE IF bad # 0
           THEN /\ cp' = [cp EXCEPT !.fn = "CopyWindowsISOWithWIMSplit",
                                    !.phase = "returned",
                                    !.largeFiles = largeFiles,
                                    !.ret = [err |-> TRUE, msg |-> "exceeds FAT32 4GB limit",
                                             file |-> largeFiles[bad].RelPath,
                                             size |-> largeFiles[bad].Size]]
                /\ UNCHANGED stats
           ELSE /\ stats' = calculateTotalSizeExcluding(tree, excludeFiles)
                /\ cp' = [cp EXCEPT !.fn = "CopyWindowsISOWithWIMSplit", !.phase = "walk",
                                    !.largeFiles = largeFiles,
                                    !.excludeFiles = excludeFiles]
    /\ UNCHANGED <<tree, dst, events, lastCopy, otherVars>>

Excluding == cp.fn \in {"copyFilesExcluding", "CopyWindowsISOWithWIMSplit"}

\* The entry the walk of the copy is at.
AtEntry == Walk(tree)[cp.i]

Walking == cp.phase = "walk" /\ cp.i <= Len(Walk(tree))

NextEntry(faulty) ==
    cp' = [cp EXCEPT !.i = @ + 1, !.faults = @ + (IF faulty THEN 1 ELSE 0)]

\* A mutant of WalkFailed: the walk goes on after a directory could not be made.
WalkFailedGoesOn(rel) == cp' = [cp EXCEPT !.i = @ + 1, !.faults = @ + 1]

\* The error a walk that stopped returns to the caller of the function.
WalkFailed(rel) ==
    IF cp.fn = "CopyWindowsISOWithWIMSplit"
    THEN Returns(TRUE, "failed to copy files", rel, Sz(0))
    ELSE Returns(TRUE, "mkdir", rel, Sz(0))

\* The walk function of copyFiles and copyFilesExcluding, err != nil:
\* stats.Failed = append(stats.Failed, relPath); return nil
copyFilesWalkError ==
    /\ Walking
    /\ WalkErr(tree, AtEntry)
    /\ stats' = [stats EXCEPT !.Failed = Append(@, tree[AtEntry].rel)]
    /\ NextEntry(FALSE)
    /\ UNCHANGED <<tree, dst, events, lastCopy, otherVars>>

\* copyFilesExcluding: if excludeMap[relPath] { return nil }
copyFilesExcludingSkip ==
    /\ Walking
    /\ ~WalkErr(tree, AtEntry)
    /\ Excluding
    /\ tree[AtEntry].rel \in cp.excludeFiles
    /\ NextEntry(FALSE)
    /\ UNCHANGED <<tree, dst, stats, events, lastCopy, otherVars>>

NotSkipped ==
    /\ Walking
    /\ ~WalkErr(tree, AtEntry)
    /\ ~(Excluding /\ tree[AtEntry].rel \in cp.excludeFiles)

\* if info.IsDir() { return os.MkdirAll(dstPath, info.Mode()) }
copyFilesMkdir ==
    /\ NotSkipped
    /\ IsDir(tree[AtEntry])
    /\ \E ok \in BOOLEAN :
        /\ ~ok => cp.faults < MaxFaults
        /\ events' = Append(events, Ev("mkdir", tree[AtEntry].rel, ok, Sz(0), Sz(0)))
        /\ IF ok THEN /\ dst' = DstPut(dst, tree[AtEntry].rel, "dir", Sz(0))
                      /\ NextEntry(FALSE)
                 ELSE /\ UNCHANGED dst
                      /\ WalkFailed(tree[AtEntry].rel)
    /\ UNCHANGED <<tree, stats, lastCopy, otherVars>>

\* A mutant of StatsAfterCopy: the file is counted as copied whatever copyFile
\* returned.
StatsAfterCopyCountAll(st, relPath, r) ==
    [st EXCEPT !.CurrentFile = relPath,
               !.CopiedBytes = r.copied,
               !.Failed = IF r.err THEN Append(@, relPath) ELSE @,
               !.CopiedFiles = @ + 1]

\* The stats after copyFile returned r for relPath: stats.CurrentFile = relPath;
\* copyFile adds to stats.CopiedBytes; on an error stats.Failed =
\* append(stats.Failed, relPath), otherwise stats.CopiedFiles++
StatsAfterCopy(st, relPath, r) ==
    [st EXCEPT !.CurrentFile = relPath,
               !.CopiedBytes = r.copied,
               !.Failed = IF r.err THEN Append(@, relPath) ELSE @,
               !.CopiedFiles = IF r.err THEN @ ELSE @ + 1]

\* if info.Mode().IsRegular() { ...; progressFn(...); copyFile(...); ... }
copyFilesCopyFile ==
    /\ NotSkipped
    /\ IsRegular(tree[AtEntry])
    /\ \E o \in TreeCopyOutcomes :
        LET e == tree[AtEntry]
            oo == IF DstDirExists(dst, Dir(e.rel)) THEN o
                  ELSE [kind |-> "create", at |-> 0, n |-> 0]
            r == copyFile(e.size, stats.CopiedBytes, oo)
        IN  /\ IsFault(o) => cp.faults < MaxFaults
            /\ events' = events
                         \o <<Progress(e.rel, stats.CopiedBytes, stats.TotalBytes)>>
                         \o ProgressCalls(e.rel, r.calls, stats.TotalBytes)
                         \o <<Ev("copy", e.rel, ~r.err, r.written, Sz(0))>>
            /\ dst' = IF r.created THEN DstPut(dst, e.rel, "file", r.written) ELSE dst
            /\ stats' = StatsAfterCopy(stats, e.rel, r)
            /\ lastCopy' = [fileSize |-> e.size, start |-> stats.CopiedBytes, o |-> oo,
                            err |-> r.err, created |-> r.created, written |-> r.written,
                            copied |-> r.copied, calls |-> r.calls, called |-> TRUE]
            /\ NextEntry(IsFault(o))
    /\ UNCHANGED <<tree, otherVars>>

\* An entry that is neither a directory nor a regular file: return nil
copyFilesOther ==
    /\ NotSkipped
    /\ ~IsDir(tree[AtEntry])
    /\ ~IsRegular(tree[AtEntry])
    /\ NextEntry(FALSE)
    /\ UNCHANGED <<tree, dst, stats, events, lastCopy, otherVars>>

\* filepath.Walk returns nil: CopyWithProgress and copyFilesExcluding return
\* it, CopyWindowsISOWithWIMSplit goes on to its second pass.
copyFilesDone ==
    /\ cp.phase = "walk"
    /\ cp.i > Len(Walk(tree))
    /\ IF cp.fn = "CopyWindowsISOWithWIMSplit"
       THEN cp' = [cp EXCEPT !.phase = "split"]
       ELSE Returns(FALSE, "", EmptyStr, Sz(0))
    /\ UNCHANGED <<tree, dst, stats, events, lastCopy, otherVars>>

\* SplitWIM writes baseName.swm (and baseName2.swm, ...) into outputDir.
SwmRel(wimRel) == SubSeq(wimRel, 1, Len(wimRel) - 1) \o <<".swm">>

\* A mutant of the second pass: a failed split is passed over.
SplitLargeFileContinue ==
    /\ cp.phase = "split"
    /\ cp.k <= Len(cp.largeFiles)
    /\ \E mkdirOk, splitOk \in BOOLEAN :
        LET lf == cp.largeFiles[cp.k]
            dstDir == Dir(lf.RelPath)
        IN  /\ (~mkdirOk \/ ~splitOk) => cp.faults < MaxFaults
            /\ IF ~mkdirOk
               THEN /\ events' = Append(events, Ev("splitdir", dstDir, FALSE, Sz(0), Sz(0)))
                    /\ UNCHANGED dst
                    /\ Returns(TRUE, "failed to create directory", dstDir, Sz(0))
               ELSE /\ events' = events \o <<Ev("splitdir", dstDir, TRUE, Sz(0), Sz(0)),
                                             Ev("split", lf.RelPath, splitOk, Sz(0), Sz(0))>>
                    /\ IF splitOk
                       THEN dst' = DstPut(DstPut(dst, dstDir, "dir", Sz(0)),
                                          SwmRel(lf.RelPath), "swm", lf.Size)
                       ELSE dst' = DstPut(dst, dstDir, "dir", Sz(0))
                    /\ cp' = [cp EXCEPT !.k = @ + 1,
                                        !.faults = @ + (IF splitOk THEN 0 ELSE 1)]
    /\ UNCHANGED <<tree, stats, lastCopy, otherVars>>

\* The second pass of CopyWindowsISOWithWIMSplit, for one element of
\* largeFiles: os.MkdirAll(dstDir, 0755), then SplitWIM(srcWIM, dstDir, 3800).
SplitLargeFile ==
    /\ cp.phase = "split"
    /\ cp.k <= Len(cp.largeFiles)
    /\ \E mkdirOk, splitOk \in BOOLEAN :
        LET lf == cp.largeFiles[cp.k]
            dstDir == Dir(lf.RelPath)
        IN  /\ (~mkdirOk \/ ~splitOk) => cp.faults < MaxFaults
            /\ IF ~mkdirOk
               THEN /\ events' = Append(events, Ev("splitdir", dstDir, FALSE, Sz(0), Sz(0)))
                    /\ UNCHANGED dst
                    /\ Returns(TRUE, "failed to create directory", dstDir, Sz(0))
               ELSE /\ events' = events \o <<Ev("splitdir", dstDir, TRUE, Sz(0), Sz(0)),
                                             Ev("split", lf.RelPath, splitOk, Sz(0), Sz(0))>>
                    /\ IF splitOk
                       THEN /\ dst' = DstPut(DstPut(dst, dstDir, "dir", Sz(0)),
                                             SwmRel(lf.RelPath), "swm", lf.Size)
                            /\ cp' = [cp EXCEPT !.k = @ + 1]
                       ELSE /\ dst' = DstPut(dst, dstDir, "dir", Sz(0))
                            /\ Returns(TRUE, "failed to split", lf.RelPath, lf.Size)
    /\ UNCHANGED <<tree, stats, lastCopy, otherVars>>

\* CopyWindowsISOWithWIMSplit: return nil
SplitDone ==
    /\ cp.phase = "split"
    /\ cp.k > Len(cp.largeFiles)
    /\ Returns(FALSE, "", EmptyStr, Sz(0))
    /\ UNCHANGED <<tree, dst, stats, events, lastCopy, otherVars>>

NextCopy ==
    \/ CallCopyWithProgress
    \/ CallCopyFilesExcluding
    \/ CallCopyWindowsISOWithWIMSplit
    \/ copyFilesWalkError
    \/ copyFilesExcludingSkip
    \/ copyFilesMkdir
    \/ copyFilesCopyFile
    \/ copyFilesOther
    \/ copyFilesDone
    \/ SplitLargeFile
    \/ SplitDone

SpecCopy == InitCopy /\ [][NextCopy]_vars

----------------------------------------------------------------------------
(* Claims about the tree copy and the split pipeline, checked under        *)
(* SpecCopy.                                                                *)

WIMSplit == cp.fn = "CopyWindowsISOWithWIMSplit"

\* A name that ends in .wim, whatever the case of its letters.
WimNamed(rel) == rel[Len(rel)] \in {".wim", ".WIM"}

\* The oversized files of the tree that are no .wim files.
Unsplittable == {i \in Oversized(tree) : ~WimNamed(tree[i].rel)}

\* C11: CopyWindowsISOWithWIMSplit, on a source tree in which some file larger
\* than 4 GiB - 1 bytes has no .wim extension (in any case of letters), returns
\* an error naming such a file and its size, having created no directory, copied
\* no file and invoked no split; a tree whose oversized files are all .wim files
\* is not turned down.
C11_RejectsUnsplittableFirst ==
    (WIMSplit /\ cp.phase # "idle") =>
        IF Unsplittable # {}
        THEN /\ cp.phase = "returned"
             /\ cp.ret.err
             /\ \E i \in Unsplittable : cp.ret.file = tree[i].rel /\ cp.ret.size = tree[i].size
             /\ dst = {}
             /\ events = <<>>
        ELSE cp.ret.msg # "exceeds FAT32 4GB limit"

\* The pipeline turned down a tree that holds an oversized .WIM file and an
\* oversized file that is no WIM file.
C11_Witness ==
    /\ WIMSplit
    /\ cp.phase = "returned"
    /\ cp.ret.msg = "exceeds FAT32 4GB limit"
    /\ \E i \in Oversized(tree) : tree[i].rel[Len(tree[i].rel)] = ".WIM"
    /\ Unsplittable # {}

\* The events of the first pass (the tree copy) and of the second (the splits).
BulkOps == {"mkdir", "progress", "copy"}

SplitOps == {"splitdir", "split"}

IsSplit(e) == e.op = "split"

\* The paths of the oversized files of the tree, in the order of the walk.
RECURSIVE OversizedFrom(_)
OversizedFrom(w) ==
    IF w = <<>> THEN <<>>
    ELSE (IF Head(w) \in Oversized(tree) THEN <<tree[Head(w)].rel>> ELSE <<>>)
         \o OversizedFrom(Tail(w))

SplitPaths == [n \in 1..Len(SelectSeq(events, IsSplit)) |-> SelectSeq(events, IsSplit)[n].path]

\* C12: in CopyWindowsISOWithWIMSplit every step of the bulk tree copy precedes
\* the first split; the splits are those of the oversized .wim files, each once,
\* in scan order (all of them once the pipeline has returned nil); the
\* destination subdirectory of a file is created just before its split is
\* invoked; and no oversized file is copied by the bulk pass.
C12_BulkCopyThenSplitsInOrder ==
    WIMSplit =>
        /\ \A i, j \in DOMAIN events :
               (events[i].op \in BulkOps /\ events[j].op \in SplitOps) => i < j
        /\ Len(SplitPaths) <= Len(OversizedFrom(Walk(tree)))
        /\ SplitPaths = SubSeq(OversizedFrom(Walk(tree)), 1, Len(SplitPaths))
        /\ (cp.phase = "returned" /\ ~cp.ret.err)
           => SplitPaths = OversizedFrom(Walk(tree))
        /\ \A j \in DOMAIN events :
               IsSplit(events[j])
               => /\ j > 1
                  /\ events[j - 1] = Ev("splitdir", Dir(events[j].path), TRUE, Sz(0), Sz(0))
        /\ \A j \in DOMAIN events :
               events[j].op = "copy" => \A i \in Oversized(tree) : events[j].path # tree[i].rel

\* The pipeline returned nil after the bulk pass made its directories and both
\* oversized files were split.
C12_Witness ==
    /\ WIMSplit
    /\ cp.phase = "returned"
    /\ ~cp.ret.err
    /\ Len(SplitPaths) = 2
    /\ \E j \in DOMAIN events : events[j].op = "mkdir"

\* C13: in CopyWindowsISOWithWIMSplit a failure to create the destination
\* subdirectory of an oversized archive, or a failed split, makes the pipeline
\* return an error at once: nothing is done after it, so no later archive is
\* split, and the pipeline does not return nil.
C13_FailedSplitAborts ==
    WIMSplit =>
        \A j \in DOMAIN events :
            (events[j].op \in SplitOps /\ ~events[j].ok)
            => /\ j = Len(events)
               /\ cp.phase = "returned"
               /\ cp.ret.err

\* The split of the first of two oversized archives failed and the second was
\* never split.
C13_Witness ==
    /\ WIMSplit
    /\ cp.phase = "returned"
    /\ Len(cp.largeFiles) = 2
    /\ Len(SplitPaths) = 1
    /\ events[Len(events)].op = "split"
    /\ ~events[Len(events)].ok

IsCopy(e) == e.op = "copy"

Range(q) == {q[n] : n \in DOMAIN q}

\* The walk of the tree copy ran to its end.
WalkCompleted ==
    \/ cp.phase = "split"
    \/ /\ cp.phase = "returned"
       /\ cp.ret.msg # "exceeds FAT32 4GB limit"
       /\ \A j \in DOMAIN events : events[j].op = "mkdir" => events[j].ok

\* C14: during a tree copy a regular file whose copy fails is appended to
\* stats.Failed and not counted in stats.CopiedFiles, and the walk goes on: when
\* no directory creation stopped it, every regular file that is not excluded
\* has been attempted, and the function returns an error only for a failure
\* that is no file copy (a directory that could not be made, a failed split, a
\* tree turned down for an oversized file).
C14_FailedFileRecordedWalkContinues ==
    /\ \A j \in DOMAIN events :
           (IsCopy(events[j]) /\ ~events[j].ok) => events[j].path \in Range(stats.Failed)
    /\ \A rel \in Range(stats.Failed) :
           \/ \E j \in DOMAIN events : IsCopy(events[j]) /\ ~events[j].ok /\ events[j].path = rel
           \/ \E i \in DOMAIN tree : tree[i].rel = rel /\ WalkErr(tree, i)
    /\ stats.CopiedFiles = Cardinality({j \in DOMAIN events : IsCopy(events[j]) /\ events[j].ok})
    /\ WalkCompleted =>
           \A i \in Files(tree) :
               tree[i].rel \notin cp.excludeFiles
               => \E j \in DOMAIN events : IsCopy(events[j]) /\ events[j].path = tree[i].rel
    /\ (cp.phase = "returned" /\ cp.ret.err) =>
           \/ cp.ret.msg = "exceeds FAT32 4GB limit"
           \/ \E j \in DOMAIN events : events[j].op \in {"mkdir", "splitdir", "split"}
                                       /\ ~events[j].ok

\* A tree copy returned nil after the copy of one file failed and the copy of a
\* later file succeeded.
C14_Witness ==
    /\ cp.phase = "returned"
    /\ ~cp.ret.err
    /\ \E j, k \in DOMAIN events :
          /\ j < k
          /\ IsCopy(events[j]) /\ ~events[j].ok
          /\ IsCopy(events[k]) /\ events[k].ok
    /\ Len(stats.Failed) = 1
    /\ stats.CopiedFiles = 1

\* C15: during a tree copy a failure to create a destination directory is
\* returned at once: it is the last thing the walk did, so no entry after that
\* directory is copied, and CopyWithProgress, copyFilesExcluding and
\* CopyWindowsISOWithWIMSplit return an error.
C15_FailedMkdirStopsWalk ==
    \A j \in DOMAIN events :
        (events[j].op = "mkdir" /\ ~events[j].ok)
        => /\ j = Len(events)
           /\ cp.phase = "returned"
           /\ cp.ret.err

\* The directory "sources" could not be made after a file of the root was
\* copied, and the file in "sources" was not attempted.
C15_Witness ==
    /\ cp.phase = "returned"
    /\ cp.ret.err
    /\ events # <<>>
    /\ events[Len(events)] = Ev("mkdir", <<"sources">>, FALSE, Sz(0), Sz(0))
    /\ \E j \in DOMAIN events : IsCopy(events[j]) /\ events[j].ok
    /\ \E i \in Files(tree) : tree[i].parent = 3 /\ tree[i].rel \notin cp.excludeFiles

\* C16: a bulk copy in which some files failed reports them to its caller: when
\* CopyWithProgress, copyFilesExcluding or CopyWindowsISOWithWIMSplit has
\* returned with stats.Failed not empty, what it returned tells the caller so.
C16_FailuresReportedToCaller ==
    (cp.phase = "returned" /\ stats.Failed # <<>>) => cp.ret.err

\* The directories and the files of the destination.
DstDirs == {x.rel : x \in {y \in dst : y.kind = "dir"}}

DstFiles == {x \in dst : x.kind = "file"}

\* The directories of the source tree, and its regular files outside the
\* exclusion set, as the destination holds them after a faithful copy.
SrcDirs == {tree[i].rel : i \in {k \in DOMAIN tree : tree[k].kind = "dir"}}

SrcFilesKept ==
    {[rel |-> tree[i].rel, kind |-> "file", bytes |-> tree[i].size] :
        i \in {k \in DOMAIN tree : IsRegular(tree[k]) /\ tree[k].rel \notin cp.excludeFiles}}

\* The byte total of a set of files, as calculateTotalSize adds it up.
RECURSIVE SumBytes(_)
SumBytes(fs) ==
    IF fs = {} THEN Sz(0)
    ELSE LET x == CHOOSE y \in fs : TRUE IN SzAdd(x.bytes, SumBytes(fs \ {x}))

\* C17: after a tree copy (copyFiles, copyFilesExcluding with any exclusion set
\* of file paths) into an empty destination has completed with no recorded
\* failure, the destination holds exactly the directories of the source and its
\* regular files outside the exclusion set, each with the content of the source
\* file, and no excluded file; with an empty exclusion set the file count and
\* the byte total of source and destination are equal.
C17_CopyIsFaithful ==
    (/\ cp.fn \in {"CopyWithProgress", "copyFilesExcluding"}
     /\ cp.phase = "returned"
     /\ ~cp.ret.err
     /\ stats.Failed = <<>>)
    => /\ DstDirs = SrcDirs
       /\ DstFiles = SrcFilesKept
       /\ cp.excludeFiles = {} =>
              /\ Cardinality(DstFiles) = calculateTotalSize(tree).TotalFiles
              /\ SumBytes(DstFiles) = calculateTotalSize(tree).TotalBytes

\* C19: in every call of the progress callback during a tree copy
\* (CopyWithProgress, copyFilesExcluding, the bulk pass of
\* CopyWindowsISOWithWIMSplit) bytesCopied <= totalBytes, also when files fail.
C19_ProgressWithinTotal ==
    \A j \in DOMAIN events :
        events[j].op = "progress" => SzLeq(events[j].done, events[j].total)

\* A copy in which one file failed half way and the last progress call of a
\* later file reported less than the total.
C19_Witness ==
    /\ cp.phase = "returned"
    /\ stats.Failed # <<>>
    /\ \E j, k \in DOMAIN events :
          /\ j < k
          /\ IsCopy(events[j]) /\ ~events[j].ok /\ events[j].done # Sz(0)
          /\ events[k].op = "progress" /\ events[k].done # Sz(0)
          /\ SzLt(events[k].done, events[k].total)

----------------------------------------------------------------------------
(* Specification SpecCopyFile: a call of copyFile on one file, of any size  *)
(* around the chunk boundaries and the threshold, with any answer of the    *)
(* operating system, the running total being 0 or not.                      *)

FileSizes == {Sz(k * ChunkSize + r) : k \in 0..MaxChunks, r \in {0, 1, ChunkSize - 1}}

FileCopyOutcomes ==
    {OkOutcome, [kind |-> "open", at |-> 0, n |-> 0], [kind |-> "create", at |-> 0, n |-> 0]}
    \cup {[kind |-> "read", at |-> k, n |-> n] : k \in 1..(MaxChunks + 2), n \in {0, 1, ChunkSize}}
    \cup {[kind |-> "write", at |-> k, n |-> 0] : k \in 1..(MaxChunks + 1)}

InitCopyFile ==
    /\ touched = NoneTouched
    /\ sess = NoResources
    /\ dirs = {}
    /\ mtab = {}
    /\ log = <<>>
    /\ pc = [p \in Procs |-> "idle"]
    /\ IdleCleanup
    /\ last = NoCall
    /\ run = NoRun
    /\ IdleCopy

\* copyFile(srcPath, dstPath, fileSize, stats, progressFn)
CallCopyFile ==
    /\ cp.phase = "idle"
    /\ \E fileSize \in FileSizes, start \in {Sz(0), Sz(7)}, o \in FileCopyOutcomes :
        LET r == copyFile(fileSize, start, o)
            file == <<"autorun", ".bin">>
        IN  /\ lastCopy' = [fileSize |-> fileSize, start |-> start, o |-> o, err |-> r.err,
                            created |-> r.created, written |-> r.written,
                            copied |-> r.copied, calls |-> r.calls, called |-> TRUE]
            /\ stats' = [NoStats EXCEPT !.TotalFiles = 1,
                                        !.TotalBytes = SzAdd(start, fileSize),
                                        !.CopiedBytes = r.copied,
                                        !.CurrentFile = file]
            /\ events' = ProgressCalls(file, r.calls, SzAdd(start, fileSize))
            /\ dst' = IF r.created THEN {[rel |-> file, kind |-> "file", bytes |-> r.written]}
                                   ELSE {}
            /\ cp' = [IdleCp EXCEPT !.fn = "copyFile", !.phase = "returned", !.ret.err = r.err]
            /\ UNCHANGED <<tree, otherVars>>

NextCopyFile == CallCopyFile

SpecCopyFile == InitCopyFile /\ [][NextCopyFile]_vars

----------------------------------------------------------------------------
(* Claims about copyFile, checked under SpecCopyFile.                       *)

\* The chunked strategy is the one for the file of the last call.
Chunked == ~SzLt(lastCopy.fileSize, Sz(LargeFileThreshold))

NonDecreasing(q) == \A m, n \in DOMAIN q : m < n => SzLeq(q[m], q[n])

\* C18: during a chunked copy (file size N >= 5 MiB) the bytesCopied values
\* passed to the progress callback never decrease, and when the copy of a file
\* that started with the counter at 0 returns nil the last value is N.
C18_ChunkedProgressReachesSize ==
    (lastCopy.called /\ Chunked) =>
        /\ NonDecreasing(lastCopy.calls)
        /\ (~lastCopy.err /\ lastCopy.start = Sz(0))
           => /\ lastCopy.calls # <<>>
              /\ lastCopy.calls[Len(lastCopy.calls)] = lastCopy.fileSize

\* The number of chunks that n bytes take.
NChunks(n) == (n.lo + ChunkSize - 1) \div ChunkSize

\* C20: copyFile selects its strategy by the size alone.  Below 5 MiB the
\* callback is invoked once, after the whole file was copied, with the running
\* total advanced by the file size (and not at all when the copy fails); from
\* 5 MiB on it is invoked once per chunk written, with the running total
\* advanced chunk by chunk, which is more than once for a file copied without
\* an error of the operating system.
C20_StrategyBySizeAlone ==
    lastCopy.called =>
        IF ~Chunked
        THEN /\ lastCopy.o = OkOutcome
                => lastCopy.calls = <<SzAdd(lastCopy.start, lastCopy.fileSize)>>
             /\ lastCopy.o # OkOutcome => lastCopy.calls = <<>>
        ELSE /\ Len(lastCopy.calls) = NChunks(lastCopy.written)
             /\ \A n \in DOMAIN lastCopy.calls :
                    lastCopy.calls[n] =
                        SzAdd(lastCopy.start, SzMin(Sz(n * ChunkSize), lastCopy.fileSize))
             /\ lastCopy.o = OkOutcome
                => /\ lastCopy.written = lastCopy.fileSize
                   /\ Len(lastCopy.calls) > 1

\* A file of exactly 5 MiB was copied in five chunks.
C20_Witness ==
    /\ lastCopy.called
    /\ lastCopy.fileSize = Sz(LargeFileThreshold)
    /\ lastCopy.o = OkOutcome
    /\ Len(lastCopy.calls) = 5

\* The failure chosen for the last call of copyFile was met: the direct copy
\* failed, or the chunk loop got as far as the failing read (the loop reads
\* once more than it writes, for the end of the stream) or the failing write.
FaultMet ==
    /\ lastCopy.called
    /\ lastCopy.o.kind \in {"read", "write"}
    /\ Chunked => IF lastCopy.o.kind = "read"
                  THEN lastCopy.o.at <= NChunks(lastCopy.fileSize) + 1
                  ELSE lastCopy.o.at <= NChunks(lastCopy.fileSize)

\* C21: in copyFile every write error and every read error other than
\* end-of-stream aborts the copy of the file and is returned to the caller, in
\* both strategies and whatever number of bytes the failing read returned:
\* copyFile never returns nil after such an error.
C21_ReadWriteErrorsReturned ==
    FaultMet => lastCopy.err

\* The source files whose copy returned nil so far, with their sizes.
Completed ==
    {[rel |-> tree[i].rel, kind |-> "file", bytes |-> tree[i].size] :
        i \in {k \in DOMAIN tree :
                 \E j \in DOMAIN events :
                    IsCopy(events[j]) /\ events[j].ok /\ events[j].path = tree[k].rel}}

\* C22: a failed single-file copy does not corrupt the aggregate statistics:
\* after copyFile returned an error, in either strategy and at any chunk,
\* stats.CopiedBytes and stats.CopiedFiles still equal the total size and the
\* count of the files that completed successfully before it.
C22_FailedCopyKeepsStatistics ==
    (cp.fn # "copyFile" /\ lastCopy.called /\ lastCopy.err)
    => /\ stats.CopiedFiles = Cardinality(Completed)
       /\ stats.CopiedBytes = SumBytes(Completed)

\* The root directory of the tree cannot be opened or read.
RootFails == ~tree[1].statOk \/ ~tree[1].listOk

\* The regular files of t below directories that can all be read, themselves
\* readable: what is left of the tree without its unreadable entries.
RECURSIVE Readable(_, _)
Readable(t, i) ==
    /\ t[i].kind # "absent"
    /\ t[i].statOk
    /\ t[i].kind = "dir" => t[i].listOk
    /\ t[i].parent # 0 => Readable(t, t[i].parent)

\* C23: the size scan (calculateTotalSize, calculateTotalSizeExcluding) of a
\* tree copy returns an error when the root directory itself cannot be opened
\* or read, and only then: an unreadable entry below the root is skipped and
\* the files of the rest of the tree are still counted.
C23_ScanFailsOnlyOnRoot ==
    cp.phase # "idle"
    => /\ (scanErr(tree) # "nil") <=> RootFails
       /\ ~RootFails =>
            \A S \in SUBSET ExcludeCandidates(tree) :
               calculateTotalSizeExcluding(tree, S).TotalFiles =
                   Cardinality({i \in DOMAIN tree : /\ Readable(tree, i)
                                                    /\ IsRegular(tree[i])
                                                    /\ tree[i].rel \notin S})

\* Every entry of the tree can be read.
ReadableTree == \A i \in DOMAIN tree : tree[i].kind # "absent" => Readable(tree, i)

\* The regular files of the tree whose relative path is not in S.
RegularOutside(S) ==
    {[rel |-> tree[i].rel, kind |-> "file", bytes |-> tree[i].size] :
        i \in {k \in DOMAIN tree : IsRegular(tree[k]) /\ tree[k].rel \notin S}}

\* The relative paths of the entries of the tree, and one that is not in it.
AnyPaths == {tree[i].rel : i \in {k \in DOMAIN tree : tree[k].kind # "absent"}}
            \cup {<<"missing", ".txt">>}

\* The size scan of the tree copy in progress has returned its totals.
Scanned ==
    /\ cp.fn \in {"CopyWithProgress", "copyFilesExcluding", "CopyWindowsISOWithWIMSplit"}
    /\ cp.phase # "idle"
    /\ cp.phase = "returned" =>
          cp.ret.msg \notin {"exceeds FAT32 4GB limit", "failed to calculate total size",
                             "failed to scan for large files"}

\* C24: for a readable tree and any set S of relative paths the size scan with
\* exclusion set S returns the count and the exact size sum of the regular
\* files whose relative path is not in S (all regular files when S is empty);
\* directories and other entries contribute nothing, and a path of S that is
\* not in the tree changes nothing.
C24_ScanTotalsExact ==
    (Scanned /\ ReadableTree)
    => /\ stats.TotalFiles = Cardinality(RegularOutside(cp.excludeFiles))
       /\ stats.TotalBytes = SumBytes(RegularOutside(cp.excludeFiles))
       /\ calculateTotalSize(tree) = calculateTotalSizeExcluding(tree, {})
       /\ \A S \in SUBSET AnyPaths :
             LET st == calculateTotalSizeExcluding(tree, S)
             IN  /\ st.TotalFiles = Cardinality(RegularOutside(S))
                 /\ st.TotalBytes = SumBytes(RegularOutside(S))
                 /\ st = calculateTotalSizeExcluding(tree, S \cup {<<"missing", ".txt">>})

\* The totals of a scan that left out one of the two regular files of a tree
\* with a directory, the list naming also a path that is not in the tree.
C24_Witness ==
    /\ Scanned /\ ReadableTree
    /\ <<"missing", ".txt">> \in cp.excludeFiles
    /\ Cardinality(RegularOutside({})) = 2
    /\ \E i \in DOMAIN tree : IsDir(tree[i]) /\ tree[i].parent # 0
    /\ stats.TotalFiles = 1
    /\ stats.TotalBytes # Sz(0)
    /\ stats.TotalBytes = SumBytes(RegularOutside(cp.excludeFiles))

----------------------------------------------------------------------------
(* Specification SpecScan: a call of FindLargeFiles on a tree whose files   *)
(* have sizes around the FAT32 limit.                                       *)

\* 4 GiB - 1 byte, 4 GiB and 4 GiB + 1 byte.
AtLimit == [hi |-> 3, lo |-> SizeBase - 1]

OverLimit == SzAdd(Big, Sz(1))

ScanFileOptions(j) ==
    {Absent,
     FileEntry(j, "file", Sz(5), ".bin", TRUE),
     FileEntry(j, "file", SzSub(AtLimit, Sz(1)), ".wim", TRUE),
     FileEntry(j, "file", AtLimit, ".wim", TRUE),
     FileEntry(j, "file", Big, ".wim", TRUE),
     FileEntry(j, "file", Big, ".wim", FALSE),
     FileEntry(j, "other", Big, ".wim", TRUE),
     FileEntry(j, "file", OverLimit, ".bin", TRUE)}

ScanFileChoices(sources) ==
    {g \in [1..MaxFiles -> UNION {ScanFileOptions(j) : j \in 1..MaxFiles}] :
        /\ \A j \in 1..MaxFiles : g[j] \in ScanFileOptions(j)
        /\ \A j \in 2..MaxFiles :
               (sources = Absent \/ ~sources.statOk \/ ~sources.listOk) => g[j] = Absent}

ScanTrees ==
    UNION {{Tree(root, sources, f) : root \in DirOptions(RootRel, 0),
                                     f \in ScanFileChoices(sources)} :
           sources \in DirOptions(<<"sources">>, 1) \cup {Absent}}

InitScan ==
    /\ touched = NoneTouched
    /\ sess = NoResources
    /\ dirs = {}
    /\ mtab = {}
    /\ log = <<>>
    /\ pc = [p \in Procs |-> "idle"]
    /\ IdleCleanup
    /\ last = NoCall
    /\ run = NoRun
    /\ tree \in {t \in ScanTrees :
                    (~t[1].statOk \/ ~t[1].listOk) => \A i \in 2..Len(t) : t[i] = Absent}
    /\ dst = {}
    /\ stats = NoStats
    /\ events = <<>>
    /\ cp = IdleCp
    /\ lastCopy = NoCopyCall

\* largeFiles, err := FindLargeFiles(srcMount)
CallFindLargeFiles ==
    /\ cp.phase = "idle"
    /\ cp' = [cp EXCEPT !.fn = "FindLargeFiles", !.phase = "returned",
                        !.largeFiles = FindLargeFiles(tree),
                        !.ret.err = scanErr(tree) # "nil"]
    /\ UNCHANGED <<tree, dst, stats, events, lastCopy, otherVars>>

NextScan == CallFindLargeFiles

SpecScan == InitScan /\ [][NextScan]_vars

----------------------------------------------------------------------------
(* The claim about FindLargeFiles, checked under SpecScan.                  *)

\* The indexes at which largeFiles reports the entry e.
ReportsOf(e) ==
    {n \in DOMAIN cp.largeFiles : cp.largeFiles[n] = [RelPath |-> e.rel, Size |-> e.size]}

\* C25: FindLargeFiles reports a regular file as oversized exactly when its
\* size is strictly greater than 4 GiB - 1 byte (4294967295 = 3 * 2^30 +
\* 1073741823): a file of exactly that size is not reported, a file of
\* 4294967296 bytes is reported with its relative path and size, each oversized
\* regular file is reported exactly once, and nothing else is reported.
C25_OversizedStrictlyAboveLimit ==
    (cp.fn = "FindLargeFiles" /\ cp.phase = "returned")
    => /\ \A i \in DOMAIN tree :
             (Readable(tree, i) /\ IsRegular(tree[i]))
             => Cardinality(ReportsOf(tree[i])) =
                   IF SzLt([hi |-> 3, lo |-> 1073741823], tree[i].size) THEN 1 ELSE 0
       /\ \A n \in DOMAIN cp.largeFiles :
             \E i \in DOMAIN tree : /\ Readable(tree, i) /\ IsRegular(tree[i])
                                    /\ n \in ReportsOf(tree[i])
       /\ \A i \in DOMAIN tree :
             (Readable(tree, i) /\ IsRegular(tree[i]) /\ tree[i].size = [hi |-> 4, lo |-> 0])
             => ReportsOf(tree[i]) # {}

\* FindLargeFiles returned one file for a tree holding a file of 4294967295
\* bytes and a file of 4294967296 bytes.
C25_Witness ==
    /\ cp.fn = "FindLargeFiles" /\ cp.phase = "returned"
    /\ \E i, j \in DOMAIN tree :
          /\ Readable(tree, i) /\ IsRegular(tree[i]) /\ tree[i].size = AtLimit
          /\ Readable(tree, j) /\ IsRegular(tree[j]) /\ tree[j].size = Big
          /\ cp.largeFiles = <<[RelPath |-> tree[j].rel, Size |-> Big]>>

----------------------------------------------------------------------------
(* A further claim about the CLI run, checked under Spec.                   *)

\* What CleanupMountpoint(mp) does in the present state of the system when the
\* mount table reads as statOk says and an unmount ends as um says: its OS
\* calls.
CallsOfCleanupMountpoint(mp, statOk, um) ==
    CleanupMountpoint(FreshWorld, mp, statOk, um, "main").w.log

\* In the calls l no directory is removed that the mount table tab showed as a
\* mountpoint, unless an unmount of it succeeded before.
RemovalOnlyOfUnmounted(l, tab) ==
    \A i \in DOMAIN l :
        l[i].op \in {"remove", "removeall"}
        => \/ ~IsMountpoint(tab, l[i].path)
           \/ \E j \in 1..(i - 1) : l[j].op = "unmount" /\ l[j].path = l[i].path /\ l[j].ok

\* C28: neither Session.Cleanup nor CleanupMountpoint removes a mountpoint
\* directory while a filesystem is still mounted on it.  Session.Cleanup is at
\* its os.Remove only with nothing mounted on the path (its unmount succeeded),
\* and CleanupMountpoint, whatever the operating system answers, attempts the
\* removal only after its unmount succeeded or for a path that is not mounted:
\* a failed unmount is never followed by a removal.
C28_NoRemovalWhileMounted ==
    /\ \A p \in Callers :
          pc[p] = "remove" => ~IsMountpoint(mtab, sess[Field(p)])
    /\ \A mp \in {run.dstMount, run.srcMount} :
          (pc["main"] \in {"clean_dst", "clean_src"} /\ mp # EmptyStr)
          => \A statOk \in BOOLEAN, um \in UnmountOutcomes :
                LET l == CallsOfCleanupMountpoint(mp, statOk, um)
                IN  /\ RemovalOnlyOfUnmounted(l, mtab)
                    /\ (\E j \in DOMAIN l : l[j].op = "unmount" /\ l[j].path = mp)
                       /\ (\A j \in DOMAIN l : l[j].op = "unmount" => ~l[j].ok)
                       => \A i \in DOMAIN l : l[i].op \notin {"remove", "removeall"}

\* main is about to release the target, which is still mounted, so that the
\* unmount may fail, while the signal listener's Cleanup has unmounted the
\* source and is about to remove its directory.
C28_Witness ==
    /\ pc["main"] = "clean_dst"
    /\ IsMountpoint(mtab, run.dstMount)
    /\ run.dstMount \in dirs
    /\ \A i \in DOMAIN CallsOfCleanupMountpoint(run.dstMount, TRUE, "fail") :
          CallsOfCleanupMountpoint(run.dstMount, TRUE, "fail")[i].op # "removeall"
    /\ pc["sig"] = "remove"
    /\ sess[Field("sig")] = run.srcMount
    /\ run.srcMount \in dirs

----------------------------------------------------------------------------
(* Package mount: CheckNotBusy.                                            *)

\* The loop that collects mountedPaths: the mountpoints of the lines of the
\* mount table, taken in the order lines, whose device is devicePath or has
\* devicePath as a prefix.
RECURSIVE MountedPaths(_, _)
MountedPaths(lines, devicePath) ==
    IF lines = <<>> THEN <<>>
    ELSE (IF Head(lines).Device = devicePath \/ HasPrefix(Head(lines).Device, devicePath)
          THEN <<Head(lines).Mountpoint>> ELSE <<>>)
         \o MountedPaths(Tail(lines), devicePath)

\* The loop over mountedPaths: Unmount each, return at the first that fails.
\* um gives the outcome of the unmount of each mountpoint.
RECURSIVE UnmountEach(_, _, _, _)
UnmountEach(w, mountedPaths, um, by) ==
    IF mountedPaths = <<>> THEN [w |-> w, err |-> FALSE]
    ELSE LET r == Unmount(w, Head(mountedPaths), um[Head(mountedPaths)], by)
         IN  IF r.err THEN [w |-> r.w, err |-> TRUE]
             ELSE UnmountEach(r.w, Tail(mountedPaths), um, by)

\* CheckNotBusy(devicePath); statOk: /proc/mounts could be read, lines: the
\* mount table in the order of its lines.
CheckNotBusy(w, devicePath, statOk, lines, um, by) ==
    LET w1 == Logged(w, Entry("getmountinfo", devicePath, "", statOk, by))
        mountedPaths == MountedPaths(lines, devicePath)
    IN  IF ~statOk THEN [w |-> w1, err |-> TRUE]
        ELSE IF Len(mountedPaths) = 0 THEN [w |-> w1, err |-> FALSE]
        ELSE UnmountEach(w1, mountedPaths, um, by)

----------------------------------------------------------------------------
(* Specification SpecBusy: one call of CheckNotBusy, as validateInputs      *)
(* makes it on cfg.target (a whole device in device mode, a partition in    *)
(* partition mode), on a system where filesystems of the target device, of  *)
(* its partitions and of other devices may be mounted.                      *)

TargetDisk == <<"/dev/sd", "b">>

\* /dev/sdb1 (DevicePath), /dev/sdb2, /dev/sdb10 and a partition of another disk.
Partition2  == <<"/dev/sd", "b", "2">>
Partition10 == <<"/dev/sd", "b", "1", "0">>
OtherDisk1  == <<"/dev/sd", "c", "1">>

MountAt(dev, mp) == [Device |-> dev, Mountpoint |-> mp, Filesystem |-> "vfat"]

\* What may be mounted when the run starts.
BusyMounts ==
    {MountAt(TargetDisk, <<"/mnt/", "disk">>), MountAt(DevicePath, <<"/mnt/", "p1">>),
     MountAt(Partition2, <<"/mnt/", "p2">>), MountAt(Partition10, <<"/mnt/", "p10">>),
     MountAt(OtherDisk1, <<"/mnt/", "other">>)}

InitBusy ==
    /\ touched = NoneTouched
    /\ sess = NoResources
    /\ \E mounted \in SUBSET BusyMounts :
          /\ mtab = mounted
          /\ dirs = {m.Mountpoint : m \in mounted}
    /\ log = <<>>
    /\ pc = [p \in Procs |-> "idle"]
    /\ IdleCleanup
    /\ IdleCopy
    /\ last = NoCall
    /\ run = NoRun

\* The orders in which /proc/mounts may list the mounts of tab.
LinesOf(tab) ==
    {l \in [1..Cardinality(tab) -> tab] : \A i, j \in DOMAIN l : i # j => l[i] # l[j]}

\* validateInputs: mount.CheckNotBusy(cfg.target)
DoCheckNotBusy ==
    /\ last = NoCall
    /\ \E target \in {TargetDisk, DevicePath}, statOk \in BOOLEAN, lines \in LinesOf(mtab),
          um \in [{m.Mountpoint : m \in mtab} -> {"syscall", "lazy", "fail"}] :
        LET r == CheckNotBusy(FreshWorld, target, statOk, lines, um, "main")
        IN  Returned([w |-> r.w, ret |-> EmptyStr, err |-> r.err],
                     "CheckNotBusy", target, IsMounted(mtab, target), FALSE)

NextBusy == DoCheckNotBusy /\ UNCHANGED copyVars

SpecBusy == InitBusy /\ [][NextBusy]_vars

----------------------------------------------------------------------------
(* The claim about CheckNotBusy, checked under SpecBusy.                    *)

DigitTokens == {"0", "1", "2", "3", "4", "5", "6", "7", "8", "9"}

\* dev names a partition of the whole device target: target does not end in a
\* digit, and dev is target followed by digits.
IsPartitionOf(dev, target) ==
    /\ target[Len(target)] \notin DigitTokens
    /\ Len(dev) > Len(target)
    /\ HasPrefix(dev, target)
    /\ \A i \in (Len(target) + 1)..Len(dev) : dev[i] \in DigitTokens

\* The mounts there were when CheckNotBusy was called (it removes no
\* directory), and those of the target itself and of its partitions.
MountsBefore == {m \in BusyMounts : m.Mountpoint \in dirs}

OwnMounts == {m \in MountsBefore : m.Device = last.arg \/ IsPartitionOf(m.Device, last.arg)}

\* The unmount of path was tried and all its tries failed.
UnmountGaveUp(path) ==
    /\ \E i \in DOMAIN log : OpAt(i, "unmount") /\ log[i].path = path
    /\ \A i \in DOMAIN log : (OpAt(i, "unmount") /\ log[i].path = path) => ~log[i].ok

\* C30: CheckNotBusy(target) unmounts only mountpoints whose device is the
\* target itself or one of its partitions, never a filesystem of another
\* device or partition (/dev/sdb10 for the target /dev/sdb1); it returns nil
\* without unmounting anything when none is mounted; and it stops with an error
\* at the first mountpoint it cannot unmount.
C30_UnmountsOnlyTarget ==
    Called("CheckNotBusy") =>
        /\ \A i \in DOMAIN log :
              OpAt(i, "unmount") => log[i].path \in {m.Mountpoint : m \in OwnMounts}
        /\ \A m \in MountsBefore \ OwnMounts : m \in mtab
        /\ (OwnMounts = {} /\ log[1].ok) =>
              /\ ~last.err
              /\ \A i \in DOMAIN log : ~OpAt(i, "unmount")
        /\ \A i \in DOMAIN log :
              (OpAt(i, "unmount") /\ UnmountGaveUp(log[i].path))
              => /\ last.err
                 /\ \A j \in i..Len(log) : log[j].path = log[i].path

----------------------------------------------------------------------------
(* Packages validation, partition and filesystem, as main calls them.  A    *)
(* check or a command is an Entry: its name, the device, the filesystem it  *)
(* makes, whether it succeeded.                                             *)

\* isWholeDevice(path) for the sd names of the model: no digits at the end.
isWholeDevice(path) == path[Len(path)] \notin DigitTokens

\* ValidateTarget(path, mode): whether it returns an error; statOk: os.Stat
\* succeeded, isBlock: the mode bits are those of a block device.
ValidateTarget(path, mode, statOk, isBlock) ==
    IF ~statOk THEN TRUE
    ELSE IF ~isBlock THEN TRUE
    ELSE CASE mode = "device"    -> ~isWholeDevice(path)
           [] mode = "partition" -> isWholeDevice(path)
           [] OTHER              -> TRUE

\* getMode(cfg)
getMode(cfg) == IF cfg.device THEN "device" ELSE "partition"

\* GetPartitionPath(device), for an sd device
GetPartitionPath(device) == device \o <<"1">>

\* The filesystem types CreatePartition and FormatPartition know.
Supported(fstype) == ToUpper(fstype) \in {"FAT32", "FAT", "NTFS"}

FormatOutcomes == {"ok", "mkfs", "label"}

\* FormatPartition(partition, fstype, label): the commands it runs and whether
\* it returns an error; labelled: label != "", o: which command fails, if any
\* (the label of a FAT filesystem is set by fatlabel, then by dosfslabel).
FormatPartition(partition, fstype, labelled, o, by) ==
    CASE ToUpper(fstype) \in {"FAT32", "FAT"} ->
            LET mkfs  == Entry("mkdosfs", partition, "FAT32", o # "mkfs", by)
                label == Entry("fatlabel", partition, "", o # "label", by)
            IN  IF o = "mkfs" THEN [cmds |-> <<mkfs>>, err |-> TRUE]
                ELSE IF labelled THEN [cmds |-> <<mkfs, label>>, err |-> o = "label"]
                ELSE [cmds |-> <<mkfs>>, err |-> FALSE]
      [] ToUpper(fstype) = "NTFS" ->
            [cmds |-> <<Entry("mkntfs", partition, "NTFS", o # "mkfs", by)>>,
             err |-> o = "mkfs"]
      [] OTHER -> [cmds |-> <<>>, err |-> TRUE]

----------------------------------------------------------------------------
(* Specification SpecCli: one CLI run of cmd/woeusb/main.go without a       *)
(* signal, step by step: the dependency check, validateInputs, the source   *)
(* mount, CreateBootablePartition (device mode), FormatPartition, the       *)
(* target mount, the copy, the release.  events holds the checks and the    *)
(* commands of the run and what they returned, tree what the source holds.  *)
(* Of the copy the run sees the error only: the check of the oversized      *)
(* files is made on the tree, the rest of the copy succeeds or fails.       *)

\* The values of --target-filesystem.
FsArgs == {"FAT", "FAT32", "NTFS", "fat", "ntfs", "Ntfs", "exfat"}

SourceToken == <<"cfg.source">>

\* The trees a source may hold: a small file in the root, and in "sources" a
\* small WIM file, a WIM file of 4 GiB or another file of 4 GiB.
CliTrees ==
    {Tree(DirEntry(RootRel, 0, TRUE, TRUE), DirEntry(<<"sources">>, 1, TRUE, TRUE),
          [j \in 1..MaxFiles |-> IF j = 1 THEN FileEntry(1, "file", Sz(5), ".bin", TRUE)
                                 ELSE IF j = 2 THEN b ELSE Absent]) :
        b \in {FileEntry(2, "file", Sz(5), ".wim", TRUE),
               FileEntry(2, "file", Big, ".wim", TRUE),
               FileEntry(2, "file", Big, ".bin", TRUE)}}

InitCli ==
    /\ touched = NoneTouched
    /\ sess = NoResources
    /\ \E mounted \in SUBSET {MountAt(DevicePath, <<"/mnt/", "p1">>)} :
          /\ mtab = mounted
          /\ dirs = {m.Mountpoint : m \in mounted}
    /\ log = <<>>
    /\ pc = [main |-> "setup", sig |-> "off", init |-> "wait"]
    /\ IdleCleanup
    /\ last = NoCall
    /\ \E d \in BOOLEAN, fs \in FsArgs, target \in {TargetDisk, DevicePath} :
           run = [trace |-> FALSE, device |-> d, filesystem |-> fs, target |-> target,
                  srcMount |-> EmptyStr, dstMount |-> EmptyStr,
                  signalled |-> FALSE, exited |-> "no"]
    /\ tree \in CliTrees
    /\ dst = {}
    /\ stats = NoStats
    /\ events = <<>>
    /\ cp = IdleCp
    /\ lastCopy = NoCopyCall

cliFrame == <<tree, dst, stats, cp, lastCopy>>

\* A mutant of CliStep: the failure of the step is not fatal.
CliStepGoesOn(from, to, op, path, fs) ==
    /\ pc["main"] = from
    /\ \E ok \in BOOLEAN : events' = Append(events, Entry(op, path, fs, ok, "main"))
    /\ Goto("main", to)
    /\ UNCHANGED <<sess, dirs, mtab, log, touched, cleanupVars, last, run, cliFrame>>

\* A step of main that is one check or one command, whose failure is fatal:
\* if err := ...; err != nil { ...; os.Exit(1) } in main, return fmt.Errorf(...)
\* in the functions main calls.
CliStep(from, to, op, path, fs) ==
    /\ pc["main"] = from
    /\ \E ok \in BOOLEAN :
          /\ events' = Append(events, Entry(op, path, fs, ok, "main"))
          /\ IF ok THEN Goto("main", to) /\ UNCHANGED run
                   ELSE MainExit1
    /\ UNCHANGED <<sess, dirs, mtab, log, touched, cleanupVars, last, cliFrame>>

\* main: checkDependencies()
CliCheckDependencies == CliStep("deps", "validate", "checkdeps", EmptyStr, "")

\* validateInputs: validation.ValidateSource(cfg.source)
CliValidateSource == CliStep("validate", "validate_tgt", "validatesource", SourceToken, "")

\* validateInputs: validation.ValidateTarget(cfg.target, getMode(cfg))
CliValidateTarget ==
    /\ pc["main"] = "validate_tgt"
    /\ \E statOk, isBlock \in BOOLEAN :
        LET err == ValidateTarget(run.target, getMode(run), statOk, isBlock)
        IN  /\ events' = Append(events, Entry("validatetarget", run.target, "", ~err, "main"))
            /\ IF err THEN MainExit1
                      ELSE Goto("main", "busy") /\ UNCHANGED run
    /\ UNCHANGED <<sess, dirs, mtab, log, touched, cleanupVars, last, cliFrame>>

\* validateInputs: mount.CheckNotBusy(cfg.target)
CliCheckNotBusy ==
    /\ pc["main"] = "busy"
    /\ \E statOk \in BOOLEAN, lines \in LinesOf(mtab),
          um \in [{m.Mountpoint : m \in mtab} -> {"syscall", "fail"}] :
        LET r == CheckNotBusy(FreshWorld, run.target, statOk, lines, um, "main")
        IN  /\ SetWorld(r.w)
            /\ events' = Append(events, Entry("checknotbusy", run.target, "", ~r.err, "main"))
            /\ IF r.err THEN MainExit1
                        ELSE Goto("main", "mount_src") /\ UNCHANGED run
    /\ UNCHANGED <<sess, cleanupVars, last, cliFrame>>

\* executeDeviceMode / executePartitionMode: srcMount, err := mountSource(cfg.source)
CliMountSource ==
    /\ MainMountSource
    /\ events' = Append(events, Entry("mountsource", SourceToken, "",
                                      run'.srcMount # EmptyStr, "main"))
    /\ UNCHANGED cliFrame

\* CreateBootablePartition: Wipe(device)
CliWipe == CliStep("partition", "mbr", "wipefs", run.target, "")

\* CreateBootablePartition: CreateMBRTable(device)
CliCreateMBRTable == CliStep("mbr", "mkpart", "mklabel", run.target, "")

\* CreateBootablePartition: CreatePartition(device, fstype), which runs no
\* command for a filesystem type it does not know.
CliCreatePartition ==
    IF Supported(run.filesystem)
    THEN CliStep("mkpart", "reread", "mkpart", run.target, ToUpper(run.filesystem))
    ELSE /\ pc["main"] = "mkpart"
         /\ MainExit1
         /\ UNCHANGED <<sess, dirs, mtab, log, touched, cleanupVars, last, events, cliFrame>>

\* CreateBootablePartition: RereadPartitionTable(device)
CliRereadPartitionTable == CliStep("reread", "format", "rereadpt", run.target, "")

\* The partition the run formats and mounts: mainPartition in device mode,
\* cfg.target in partition mode.
MainPartition == IF run.device THEN GetPartitionPath(run.target) ELSE run.target

\* filesystem.FormatPartition(mainPartition, cfg.filesystem, cfg.label)
CliFormat ==
    /\ pc["main"] = "format"
    /\ \E labelled \in BOOLEAN, o \in FormatOutcomes :
        LET r == FormatPartition(MainPartition, run.filesystem, labelled, o, "main")
        IN  /\ events' = events \o r.cmds
            /\ IF r.err THEN MainExit1
                        ELSE Goto("main", "mount_dst") /\ UNCHANGED run
    /\ UNCHANGED <<sess, dirs, mtab, log, touched, cleanupVars, last, cliFrame>>

\* fsType := "vfat"; if cfg.filesystem == "NTFS" { fsType = "ntfs-3g" };
\* dstMount, err := mount.MountDevice(mainPartition, fsType): the entry holds
\* the type MountDevice hands to Mount.
CliMountTarget ==
    /\ MainMountTarget
    /\ events' = Append(events, Entry("mountdevice", MainPartition,
                                      NormalizeFstype(TargetFsType(run.filesystem)),
                                      run'.dstMount # EmptyStr, "main"))
    /\ UNCHANGED cliFrame

\* filecopy.CopyWindowsISOWithWIMSplit(srcMount, dstMount, ...): it returns an
\* error for an oversized file that is no WIM file, and otherwise when its copy
\* or its split fails; in device mode: if cfg.biosBootFlag { ... }
CliCopy ==
    /\ pc["main"] = "copy"
    /\ \E ok, biosBootFlag \in BOOLEAN :
        LET largeFiles == FindLargeFiles(tree)
            err == FirstNotWIM(largeFiles) # 0 \/ ~ok
        IN  /\ events' = Append(events, Entry("copy", run.dstMount,
                                              IF largeFiles = <<>> THEN "" ELSE "split",
                                              ~err, "main"))
            /\ IF err THEN MainExit1
               ELSE /\ Goto("main", IF run.device /\ biosBootFlag THEN "bootflag"
                                                                  ELSE "clean_dst")
                    /\ UNCHANGED run
    /\ UNCHANGED <<sess, dirs, mtab, log, touched, cleanupVars, last, cliFrame>>

\* Without a signal the deferred Cleanup finds the fields of the session
\* empty (a fatal error ends the process with os.Exit, which runs no deferred
\* call): it makes its three checks and returns.
NextCli ==
    \/ Alive /\ MainSetup /\ UNCHANGED copyVars
    \/ Alive /\ CliCheckDependencies
    \/ Alive /\ CliValidateSource
    \/ Alive /\ CliValidateTarget
    \/ Alive /\ CliCheckNotBusy
    \/ Alive /\ CliMountSource
    \/ Alive /\ CliWipe
    \/ Alive /\ CliCreateMBRTable
    \/ Alive /\ CliCreatePartition
    \/ Alive /\ CliRereadPartitionTable
    \/ Alive /\ CliFormat
    \/ Alive /\ CliMountTarget
    \/ Alive /\ CliCopy
    \/ Alive /\ MainSetBootFlag /\ UNCHANGED copyVars
    \/ Alive /\ MainCleanupTarget /\ UNCHANGED copyVars
    \/ Alive /\ MainCleanupSource /\ UNCHANGED copyVars
    \/ Alive /\ MainClearFields /\ UNCHANGED copyVars
    \/ Alive /\ MainReturn /\ UNCHANGED copyVars
    \/ Alive /\ CleanupCheck("main") /\ UNCHANGED copyVars
    \/ Alive /\ CleanupReturn("main") /\ UNCHANGED copyVars
    \/ Alive /\ MainDone /\ UNCHANGED copyVars

SpecCli == InitCli /\ [][NextCli]_vars

----------------------------------------------------------------------------
(* The order of a CLI run in device mode.                                   *)

\* The commands that destroy what the target holds: wipefs, parted mklabel,
\* parted mkpart, mkdosfs and mkntfs.
Destructive == {"wipefs", "mklabel", "mkpart", "mkdosfs", "mkntfs"}

\* The checks that come before them, in the order of main.
Preconditions == <<"checkdeps", "validatesource", "validatetarget",
                   "checknotbusy", "mountsource">>

\* Before the i-th entry the run holds the k-th check and those after it, each
\* one succeeded, in their order, from the entry after `from` on.
RECURSIVE ChecksBefore(_, _, _)
ChecksBefore(k, from, i) ==
    IF k > Len(Preconditions) THEN TRUE
    ELSE \E j \in (from + 1)..(i - 1) :
            /\ events[j].op = Preconditions[k]
            /\ events[j].ok
            /\ ChecksBefore(k + 1, j, i)

\* C27: in a CLI run in device mode a destructive command (wipe, creation of
\* the partition table, creation of the partition, format) is issued only after
\* the dependency check, the validation of the source, the validation of the
\* target, the busy check and the mount of the source each succeeded, in that
\* order.
C27_DestructiveOnlyAfterChecks ==
    run.device =>
        \A i \in 1..Len(events) :
            events[i].op \in Destructive => ChecksBefore(1, 0, i)

\* A run in device mode that formatted the partition it created.
C27_Witness ==
    /\ run.device
    /\ \E i, j, k \in 1..Len(events) :
          /\ events[i].op = "wipefs" /\ events[j].op = "mkpart"
          /\ events[k].op \in {"mkdosfs", "mkntfs"} /\ events[k].ok

----------------------------------------------------------------------------
(* The filesystem of the target: the one made and the one mounted.          *)

\* The type the mount of a filesystem made by the command needs.
MountTypeOf(mkfs) == IF mkfs = "mkdosfs" THEN "vfat" ELSE "ntfs3"

\* C29: for every value of --target-filesystem that FormatPartition accepts
\* (FAT, FAT32, NTFS in any letter case) the type with which the CLI mounts the
\* target partition is the type it was formatted with before: vfat after
\* mkdosfs, ntfs3 after mkntfs.
C29_MountTypeIsFormatType ==
    Supported(run.filesystem) =>
        \A i \in 1..Len(events) :
            events[i].op = "mountdevice" =>
                \A j \in 1..(i - 1) :
                    events[j].op \in {"mkdosfs", "mkntfs"} =>
                        events[i].fs = MountTypeOf(events[j].op)

\* C26: when the source holds a file of more than 4 GB and the requested
\* filesystem of the target is FAT, the CLI run switches to NTFS: it formats
\* the target with mkntfs and mounts it as ntfs3, and neither goes on with FAT
\* nor fails for the size of the file.
C26_OversizedSourceSwitchesToNTFS ==
    (run.filesystem = "FAT" /\ FindLargeFiles(tree) # <<>>) =>
        \A i \in 1..Len(events) :
            /\ events[i].op # "mkdosfs"
            /\ events[i].op = "mountdevice" => events[i].fs = "ntfs3"
            /\ events[i].op = "copy" => events[i].fs # "split"

=============================================================================
